---------------------------- MODULE Spec2Model ----------------------------
(***************************************************************************)
(* Order-lifecycle QA harnesses of pronto-tests:                           *)
(*   perf : tests/performance/performance.spec.ts, "Ciclo Completo"        *)
(*   qa   : playwright-tests/qa-cycle.spec.ts, "Complete order cycle"      *)
(*   main : pronto-qa-test.cjs, the main async IIFE                        *)
(* The application under test is the environment: what a page shows and    *)
(* whether a click advances the order is chosen nondeterministically.      *)
(***************************************************************************)
EXTENDS Integers, Sequences, FiniteSets, TLC

VARIABLES
  prog,       \* which harness runs: "perf", "qa" or "main"
  pc,         \* position in the harness
  orderId,    \* the shared order id; 0 is undefined / empty / null
  status,     \* backend data-status of each order
  page,       \* perf: what the client page shows after checkout
  response,   \* qa: the captured POST /api/orders response
  active,     \* qa: ids returned by GET /api/orders/active, most recent first
  errors,     \* the findings recorded so far (guard: the failures array)
  outcome,    \* "running", "passed" or "failed"
  open,       \* browser contexts currently open
  closes,     \* close() calls on each step's context or page
  clicks,     \* <<control, order>> pairs the harness invoked
  confirmed,  \* post-states the harness read after invoking their transition
  obs,        \* the data-status the harness read last
  seen,       \* every data-status the harness has read
  vis,        \* orders whose row is shown on the dashboard of the step
  row,        \* order the current step's row locator resolves to (0: none)
  executed,   \* stages started
  skipped,    \* what the run went without: a control, a stage, the order
              \* id, a confirmation, the kitchen rows, the PDF button, or
              \* "thrown" for a caught exception,
              \* "reaccept" for an order still new at the deliver step
  url,        \* employee page after the login submit
  retried,    \* direct dashboard navigations after a login
  report,     \* main: the written report, or NoReport
  authFailed, \* stages whose login left the page on /login
  menuItems,  \* main: number of [data-item-id] elements counted in FASE 1
  users,      \* the actors that have acted in each browser context
  cardText,   \* perf: the order card text the verification read last
  attached,   \* perf: payment modal controls the harness waited for and found
  summary,    \* flow: the counts printed under RESUMEN, or NoSummary
  events,     \* flow, e2e, guard: messages delivered to the page listeners,
              \* <<type, page location>> pairs in arrival order
  test,       \* login: the Playwright test that runs
  http,       \* login: the responses the test has received
  fail,       \* run-tests.sh: the fail flag
  RESULTS,    \* run-all-tests.sh: the RESULTS array, <<type, status>> pairs
  cmds,       \* run-tests.sh: the commands found on the machine
  truth,      \* the scripts: what became of each suite, <<suite, what>> pairs
  env         \* "happy" while the application has done all that was asked

vars == <<prog, pc, orderId, status, page, response, active, errors, outcome,
          open, closes, clicks, confirmed, obs, seen, vis, row, executed,
          skipped,
          url, retried, report, authFailed, menuItems, users,
          cardText, attached, summary, events, test, http,
          fail, RESULTS, cmds, truth, env>>

-----------------------------------------------------------------------------
(* Bounds *)

\* steps by which other staff may advance our order between two stages
MaxExternal == 1

-----------------------------------------------------------------------------
(* Orders, workflow states and the application's state machine *)

\* order 1 is the order of this run (its row shows customerName);
\* order 2 is another customer's order
Orders == {1, 2}
customerOrder == 1
\* id 3 is an id no employee dashboard row carries
Ids == {1, 2, 3}

States == <<"new", "accepted", "kitchen_in_progress", "ready_for_delivery",
            "delivered", "paid">>
StateSet == {States[i] : i \in 1..Len(States)}

Rank(s) == IF s \in StateSet THEN CHOOSE i \in 1..Len(States) : States[i] = s
           ELSE 0

Pre(t) == CASE t = "accept"  -> "new"
            [] t = "start"   -> "accepted"
            [] t = "ready"   -> "kitchen_in_progress"
            [] t = "deliver" -> "ready_for_delivery"
            [] t = "pay"     -> "delivered"

Post(t) == CASE t = "accept"  -> "accepted"
             [] t = "start"   -> "kitchen_in_progress"
             [] t = "ready"   -> "ready_for_delivery"
             [] t = "deliver" -> "delivered"
             [] t = "pay"     -> "paid"

\* the application's answer to an invoked control: it advances the order
\* when the order is in the transition's predecessor state and the
\* application works (eff), and leaves it alone otherwise
AppClick(st, o, t, eff) ==
  IF o \in Orders /\ eff /\ st[o] = Pre(t)
  THEN [st EXCEPT ![o] = Post(t)]
  ELSE st

\* other staff advancing our order by k steps before a dashboard loads
Advance(s, k) == IF Rank(s) = 0 THEN s
                 ELSE States[IF Rank(s) + k > Len(States) THEN Len(States)
                             ELSE Rank(s) + k]

ExternalAdvance(st, k) ==
  [st EXCEPT ![customerOrder] = Advance(st[customerOrder], k)]

-----------------------------------------------------------------------------
(* Contexts *)

Contexts == {"client", "waiterAccept", "chef", "waiterDeliver", "verifier",
             "waiter", "waiter2", "cashier", "browser"}

NoCloses == [c \in Contexts |-> 0]
\* a close() that leaves the context open
Release_Leak(o, c) == o
\* context.close(): the context is no longer open
Release(o, c) == o \ {c}
CloseOf(cl, c) == [cl EXCEPT ![c] = @ + 1]

NoUsers == [c \in Contexts |-> {}]
\* an actor acts in a context
Use(us, c, actor) == [us EXCEPT ![c] = @ \cup {actor}]

NoText == [word |-> "", case |-> "lower"]
NoPage == [card |-> 0, urlId |-> 0, attr |-> 0, num |-> 0]
NoResponse == [ok |-> FALSE, order_id |-> 0, id |-> 0]
NoReport == [written |-> FALSE, total |-> 0, critical |-> 0, high |-> 0,
             medium |-> 0, low |-> 0, errors |-> <<>>]
NoSummary == [printed |-> FALSE, total |-> 0, critical |-> 0, high |-> 0,
              medium |-> 0, low |-> 0]

NoHttp == [page |-> 0, csrf |-> FALSE, login |-> 0, payload |-> "", me |-> 0]

\* state of the programs other than the three browser harnesses
flowAux == <<summary, events>>
loginAux == <<test, http>>
shAux == <<fail, RESULTS, cmds, truth>>
auxVars == <<flowAux, loginAux, shAux>>

InitFlowAux ==
  /\ summary = NoSummary
  /\ events = <<>>

InitLoginAux ==
  /\ test = "none"
  /\ http = NoHttp

InitShAux ==
  /\ fail = 0
  /\ RESULTS = <<>>
  /\ cmds = {}
  /\ truth = <<>>

InitAux ==
  /\ InitFlowAux
  /\ InitLoginAux
  /\ InitShAux


-----------------------------------------------------------------------------
(* Helpers shared by the harnesses *)

Degrade(good) == env' = IF good THEN env ELSE "degraded"

\* an exception that is swallowed: the run goes on to the verification
Throw_Swallowed == /\ pc' = "p_verify"
                   /\ outcome' = outcome

\* an uncaught exception in a Playwright test: the test ends failed, and
\* nothing after the throwing statement runs
Throw == /\ pc' = "done"
         /\ outcome' = "failed"

qaVars == <<response, active, errors, report, menuItems>>
loginVars == <<url, retried, authFailed>>
rowVars == <<vis, row, obs, seen, menuItems>>

-----------------------------------------------------------------------------
(* performance.spec.ts: Ciclo Completo *)

Pages == [card : {0, 1, 3}, urlId : {0, 1, 3}, attr : 0..3, num : 0..3]

\* Method 1: order card found by customer name
Method1(pg, id) == IF pg.card # 0 THEN pg.card ELSE id
\* Method 2: /orders/<digits> in the URL
Method2(pg, id) == IF id = 0 /\ pg.urlId # 0 THEN pg.urlId ELSE id
\* Method 3 without its if (!orderId) guard
Method3_Unguarded(pg, id) == IF pg.attr # 0 THEN pg.attr ELSE id
\* Method 3: the first [data-order-id] element of the page
Method3(pg, id) == IF id = 0 /\ pg.attr # 0 THEN pg.attr ELSE id
\* Method 4: #<digits> in the order number text
Method4(pg, id) == IF id = 0 /\ pg.num # 0 THEN pg.num ELSE id

ResolvePerf(pg, id) == Method4(pg, Method3(pg, Method2(pg, Method1(pg, id))))

\* a poll that accepts whatever status the row shows
MatchesInProgress_Any(s) == s \in StateSet
\* toMatch(/kitchen_in_progress|preparing/i)
MatchesInProgress(s) == s \in {"kitchen_in_progress", "preparing"}
\* toMatch(/ready_for_delivery|ready/i)
MatchesReady(s) == s \in {"ready_for_delivery", "ready"}
\* a poll that accepts whatever status the row shows
IsDelivered_Any(s) == s \in StateSet
\* toBe('delivered')
IsDelivered(s) == s = "delivered"

\* customer-visible status texts of the orders tab
Words == {"nueva", "aceptada", "preparando", "lista", "entregada",
          "pagada", "paid", "pagado", "completado"}
Cases == {"lower", "upper"}
DisplayTexts(s) ==
  CASE s = "new"                 -> {"nueva"}
    [] s = "accepted"            -> {"aceptada"}
    [] s = "kitchen_in_progress" -> {"preparando"}
    [] s = "ready_for_delivery"  -> {"lista"}
    [] s = "delivered"           -> {"entregada"}
    [] s = "paid"                -> {"pagada", "paid", "pagado", "completado"}
    [] OTHER                     -> {}
\* an assertion that accepts any card text
MatchesPaid_Any(text) == TRUE
\* the same words without the i flag
MatchesPaid_CaseSensitive(text) ==
  text.word \in {"pagada", "paid", "pagado", "completado"} /\ text.case = "lower"
\* toMatch(/pagada|paid|pagado|completado/i) on [word, case]
MatchesPaid(text) == text.word \in {"pagada", "paid", "pagado", "completado"}

\* the row a step works on: the row carrying the id, else the row showing
\* the customer name, else none
RowById(id, v) == IF id \in v THEN id ELSE 0
RowByName(v) == IF customerOrder \in v THEN customerOrder ELSE 0
Locate(id, v) == IF RowById(id, v) # 0 THEN RowById(id, v) ELSE RowByName(v)

InitPerf ==
  /\ prog = "perf"
  /\ pc = "p_client"
  /\ orderId = 0
  /\ status \in [Orders -> {"none"} \cup StateSet]
  /\ status[customerOrder] = "none"
  /\ status[2] # "none"
  /\ page = NoPage
  /\ response = NoResponse
  /\ active = <<>>
  /\ errors = <<>>
  /\ outcome = "running"
  /\ open = {}
  /\ closes = NoCloses
  /\ clicks = {}
  /\ confirmed = {}
  /\ obs = "none"
  /\ seen = {}
  /\ vis = {}
  /\ row = 0
  /\ executed = {}
  /\ skipped = {}
  /\ url = "none"
  /\ retried = 0
  /\ report = NoReport
  /\ authFailed = {}
  /\ menuItems = 0
  /\ users = NoUsers
  /\ cardText = NoText
  /\ attached = {}
  /\ InitAux
  /\ env = "happy"

\* PASO 1: the customer creates the order
P_Client ==
  /\ prog = "perf" /\ pc = "p_client"
  /\ open' = open \cup {"client"}
  /\ executed' = executed \cup {"client"}
  /\ \E ok \in BOOLEAN, pg \in Pages :
       /\ Degrade(ok /\ pg.card = customerOrder)
       /\ IF ok
          THEN /\ status' = [status EXCEPT ![customerOrder] = "new"]
               /\ page' = pg
               /\ pc' = "p_resolve"
               /\ outcome' = outcome
          ELSE /\ Throw
               /\ UNCHANGED <<status, page>>
  /\ UNCHANGED <<prog, orderId, closes, clicks, confirmed, skipped>>
  /\ UNCHANGED <<qaVars, loginVars, rowVars>>
  /\ users' = Use(users, "client", "customer")
  /\ UNCHANGED cardText
  /\ UNCHANGED attached
  /\ UNCHANGED auxVars

\* order id capture, Method 1 to 4, then clientContext.close() and the throw
P_Resolve ==
  /\ prog = "perf" /\ pc = "p_resolve"
  /\ orderId' = ResolvePerf(page, orderId)
  /\ page' = NoPage
  /\ open' = Release(open, "client")
  /\ closes' = CloseOf(closes, "client")
  /\ IF orderId' = 0
     THEN Throw /\ skipped' = skipped \cup {"id"}
     ELSE pc' = "p_wa_login" /\ outcome' = outcome /\ skipped' = skipped
  /\ UNCHANGED <<prog, status, clicks, confirmed, executed, env>>
  /\ UNCHANGED <<qaVars, loginVars, rowVars>>
  /\ UNCHANGED users
  /\ UNCHANGED cardText
  /\ UNCHANGED attached
  /\ UNCHANGED auxVars

\* the three employee logins: context, login page, form, submit
LoginPcs == {"p_wa_login", "p_ch_login", "p_wd_login"}
StageOf(p) == CASE p \in {"p_wa_login", "p_wa_check", "p_wa_locate"} -> "waiterAccept"
                [] p \in {"p_ch_login", "p_ch_check", "p_ch_locate"} -> "chef"
                [] p \in {"p_wd_login", "p_wd_check", "p_wd_locate"} -> "waiterDeliver"
CheckOf(p) == CASE p = "p_wa_login" -> "p_wa_check"
                [] p = "p_ch_login" -> "p_ch_check"
                [] p = "p_wd_login" -> "p_wd_check"
\* the employee whose credentials the stage submits
RoleOf(stage) == IF stage = "chef" THEN "chef" ELSE "waiter"
LocateOf(p) == CASE p = "p_wa_check" -> "p_wa_locate"
                 [] p = "p_ch_check" -> "p_ch_locate"
                 [] p = "p_wd_check" -> "p_wd_locate"

P_Login ==
  /\ prog = "perf" /\ pc \in LoginPcs
  /\ open' = open \cup {StageOf(pc)}
  /\ executed' = executed \cup {StageOf(pc)}
  /\ retried' = 0
  /\ authFailed' = authFailed
  /\ \E form \in BOOLEAN, u \in {"login", "dashboard"} :
       /\ Degrade(form /\ u = "dashboard")
       /\ IF form
          THEN /\ url' = u
               /\ pc' = CheckOf(pc)
               /\ outcome' = outcome
          ELSE /\ Throw
               /\ url' = "login"
  /\ UNCHANGED <<prog, orderId, status, page, closes, clicks, confirmed, skipped>>
  /\ UNCHANGED <<qaVars, rowVars>>
  /\ users' = Use(users, StageOf(pc), RoleOf(StageOf(pc)))
  /\ UNCHANGED cardText
  /\ UNCHANGED attached
  /\ UNCHANGED auxVars

\* still on /login: navigate to the dashboard once
P_LoginRetry ==
  /\ prog = "perf" /\ pc \in {"p_wa_check", "p_ch_check", "p_wd_check"}
  /\ url = "login" /\ retried = 0
  /\ retried' = 1
  /\ authFailed' = authFailed
  /\ \E u \in {"login", "dashboard"} :
       /\ url' = u
       /\ Degrade(u = "dashboard")
  /\ UNCHANGED <<prog, pc, orderId, status, page, outcome, open, closes, clicks,
                 confirmed, executed, skipped>>
  /\ UNCHANGED <<qaVars, rowVars>>
  /\ UNCHANGED users
  /\ UNCHANGED cardText
  /\ UNCHANGED attached
  /\ UNCHANGED auxVars

\* the dashboard used without looking at the URL
P_LoginEnter_Unchecked ==
  /\ prog = "perf" /\ pc \in {"p_wa_check", "p_ch_check", "p_wd_check"}
  /\ url = "dashboard" \/ retried = 1
  /\ authFailed' = authFailed
  /\ \E table \in BOOLEAN :
       /\ Degrade(table)
       /\ IF table
          THEN pc' = LocateOf(pc) /\ outcome' = outcome
          ELSE Throw
  /\ UNCHANGED <<prog, orderId, status, page, open, closes, clicks, confirmed,
                 executed, skipped, url, retried>>
  /\ UNCHANGED <<qaVars, rowVars>>
  /\ UNCHANGED users
  /\ UNCHANGED cardText
  /\ UNCHANGED attached
  /\ UNCHANGED auxVars

\* 'Session lost' when still on /login, else wait for the dashboard table
P_LoginEnter ==
  /\ prog = "perf" /\ pc \in {"p_wa_check", "p_ch_check", "p_wd_check"}
  /\ url = "dashboard" \/ retried = 1
  /\ IF url = "login"
     THEN /\ Throw
          /\ env' = env
          /\ authFailed' = authFailed \cup {StageOf(pc)}
     ELSE /\ authFailed' = authFailed
          /\ \E table \in BOOLEAN :
               /\ Degrade(table)
               /\ IF table
                  THEN pc' = LocateOf(pc) /\ outcome' = outcome
                  ELSE Throw
  /\ UNCHANGED <<prog, orderId, status, page, open, closes, clicks, confirmed,
                 executed, skipped, url, retried>>
  /\ UNCHANGED <<qaVars, rowVars>>
  /\ UNCHANGED users
  /\ UNCHANGED cardText
  /\ UNCHANGED attached
  /\ UNCHANGED auxVars


\* getAttribute('data-status'): the harness reads a status
Observe(s) == /\ obs' = s
              /\ seen' = seen \cup {s}

\* a status read after invoking t: t is confirmed when it is t's post-state
Confirm(t, s) == confirmed' = confirmed \cup ({s} \cap {Post(t)})

\* the poll of t ended without its post-state
Unconfirmed(t, s) == IF s = Post(t) THEN {} ELSE {"unconfirmed"}

\* PASO 2: refresh, find the row by id, else by customer name (and then
\* take the row's data-order-id as orderId), toBeAttached, initial status
P_AcceptLocate ==
  /\ prog = "perf" /\ pc = "p_wa_locate"
  /\ \E k \in 0..MaxExternal, v \in SUBSET Orders :
       /\ status' = ExternalAdvance(status, k)
       /\ vis' = v
       /\ row' = Locate(orderId, v)
       /\ orderId' = IF RowById(orderId, v) = 0 /\ RowByName(v) # 0
                     THEN RowByName(v) ELSE orderId
       /\ Degrade(k = 0 /\ RowById(orderId, v) = customerOrder)
       /\ IF row' = 0
          THEN Throw /\ UNCHANGED <<obs, seen>>
          ELSE /\ Observe(status'[row'])
               /\ pc' = "p_wa_accept"
               /\ outcome' = outcome
  /\ UNCHANGED <<prog, page, open, closes, clicks, confirmed, executed, skipped>>
  /\ UNCHANGED <<qaVars, loginVars>>
  /\ UNCHANGED users
  /\ UNCHANGED cardText
  /\ UNCHANGED attached
  /\ UNCHANGED auxVars

\* accept button of the row tr[data-order-id=orderId]: click it and log the
\* new status, or log the current status; then waiterAcceptContext.close()
P_Accept ==
  /\ prog = "perf" /\ pc = "p_wa_accept"
  /\ \E acceptBtn \in BOOLEAN, eff \in BOOLEAN :
       /\ Degrade(acceptBtn /\ eff)
       /\ IF acceptBtn /\ orderId \in vis
          THEN /\ clicks' = clicks \cup {<<"accept", orderId>>}
               /\ status' = AppClick(status, orderId, "accept", eff)
               /\ Observe(status'[Locate(orderId, vis)])
               /\ Confirm("accept", obs')
               /\ skipped' = skipped
          ELSE /\ Observe(status[row])
               /\ skipped' = skipped \cup {"accept"}
               /\ UNCHANGED <<clicks, status, confirmed>>
  /\ open' = Release(open, "waiterAccept")
  /\ closes' = CloseOf(closes, "waiterAccept")
  /\ vis' = {} /\ row' = 0
  /\ pc' = "p_ch_login"
  /\ UNCHANGED <<prog, orderId, page, outcome, executed, menuItems>>
  /\ UNCHANGED <<qaVars, loginVars>>
  /\ UNCHANGED users
  /\ UNCHANGED cardText
  /\ UNCHANGED attached
  /\ UNCHANGED auxVars

\* PASO 3: find the row by id, else by customer name (orderId is kept);
\* no row: the kitchen step is skipped and chefContext closed; else the
\* row's status is logged
P_ChefLocate ==
  /\ prog = "perf" /\ pc = "p_ch_locate"
  /\ \E k \in 0..MaxExternal, v \in SUBSET Orders :
       /\ status' = ExternalAdvance(status, k)
       /\ Degrade(k = 0 /\ RowById(orderId, v) = customerOrder)
       /\ IF Locate(orderId, v) = 0
          THEN /\ skipped' = skipped \cup {"chef"}
               /\ open' = Release(open, "chef")
               /\ closes' = CloseOf(closes, "chef")
               /\ vis' = {} /\ row' = 0
               /\ pc' = "p_wd_login"
               /\ UNCHANGED <<obs, seen>>
          ELSE /\ vis' = v
               /\ row' = Locate(orderId, v)
               /\ Observe(status'[row'])
               /\ pc' = "p_ch_start"
               /\ UNCHANGED <<skipped, open, closes>>
  /\ UNCHANGED <<prog, orderId, page, outcome, clicks, confirmed, executed,
                 menuItems>>
  /\ UNCHANGED <<qaVars, loginVars>>
  /\ UNCHANGED users
  /\ UNCHANGED cardText
  /\ UNCHANGED attached
  /\ UNCHANGED auxVars

\* click "Iniciar" in the row, then poll data-status (toPass 10000)
P_ChefStart ==
  /\ prog = "perf" /\ pc = "p_ch_start"
  /\ \E chefStartBtn \in BOOLEAN, eff \in BOOLEAN :
       /\ Degrade(chefStartBtn /\ eff)
       /\ IF ~chefStartBtn
          THEN /\ Throw
               /\ skipped' = skipped \cup {"start"}
               /\ UNCHANGED <<clicks, status, obs, seen, confirmed>>
          ELSE /\ clicks' = clicks \cup {<<"start", row>>}
               /\ status' = AppClick(status, row, "start", eff)
               /\ Observe(status'[row])
               /\ Confirm("start", obs')
               /\ skipped' = skipped \cup Unconfirmed("start", obs')
               /\ IF MatchesInProgress(obs')
                  THEN pc' = "p_ch_ready" /\ outcome' = outcome
                  ELSE Throw
  /\ UNCHANGED <<prog, orderId, page, open, closes, vis, row, executed, menuItems>>
  /\ UNCHANGED <<qaVars, loginVars>>
  /\ UNCHANGED users
  /\ UNCHANGED cardText
  /\ UNCHANGED attached
  /\ UNCHANGED auxVars

\* click "Listo" in the row, poll data-status (toPass 10000), close
P_ChefReady ==
  /\ prog = "perf" /\ pc = "p_ch_ready"
  /\ \E chefReadyBtn \in BOOLEAN, eff \in BOOLEAN :
       /\ Degrade(chefReadyBtn /\ eff)
       /\ IF ~chefReadyBtn
          THEN /\ Throw
               /\ skipped' = skipped \cup {"ready"}
               /\ UNCHANGED <<clicks, status, obs, seen, confirmed, open, closes,
                              vis, row>>
          ELSE /\ clicks' = clicks \cup {<<"ready", row>>}
               /\ status' = AppClick(status, row, "ready", eff)
               /\ Observe(status'[row])
               /\ Confirm("ready", obs')
               /\ skipped' = skipped \cup Unconfirmed("ready", obs')
               /\ IF MatchesReady(obs')
                  THEN /\ pc' = "p_wd_login" /\ outcome' = outcome
                       /\ open' = Release(open, "chef")
                       /\ closes' = CloseOf(closes, "chef")
                       /\ vis' = {} /\ row' = 0
                  ELSE /\ Throw
                       /\ UNCHANGED <<open, closes, vis, row>>
  /\ UNCHANGED <<prog, orderId, page, executed, menuItems>>
  /\ UNCHANGED <<qaVars, loginVars>>
  /\ UNCHANGED users
  /\ UNCHANGED cardText
  /\ UNCHANGED attached
  /\ UNCHANGED auxVars

\* PASO 4: find the row by id, else by customer name (orderId is kept),
\* toBeAttached, deliveryInitialStatus
P_DeliverLocate ==
  /\ prog = "perf" /\ pc = "p_wd_locate"
  /\ \E k \in 0..MaxExternal, v \in SUBSET Orders :
       /\ status' = ExternalAdvance(status, k)
       /\ vis' = v
       /\ row' = Locate(orderId, v)
       /\ Degrade(k = 0 /\ RowById(orderId, v) = customerOrder)
       /\ IF row' = 0
          THEN Throw /\ UNCHANGED <<obs, seen>>
          ELSE /\ Observe(status'[row'])
               /\ pc' = IF obs' = "new" THEN "p_wd_reaccept" ELSE "p_wd_deliver"
               /\ outcome' = outcome
  /\ UNCHANGED <<prog, orderId, page, open, closes, clicks, confirmed, executed,
                 skipped, menuItems>>
  /\ UNCHANGED <<qaVars, loginVars>>
  /\ UNCHANGED users
  /\ UNCHANGED cardText
  /\ UNCHANGED attached
  /\ UNCHANGED auxVars

\* an order still "new" at the deliver step ends the run
P_DeliverReaccept_Abort ==
  /\ prog = "perf" /\ pc = "p_wd_reaccept"
  /\ env' = "degraded"
  /\ Throw
  /\ skipped' = skipped \cup {"reaccept"}
  /\ UNCHANGED <<prog, orderId, page, open, closes, vis, row, executed,
                 menuItems, clicks, status, obs, seen, confirmed>>
  /\ UNCHANGED <<qaVars, loginVars>>
  /\ UNCHANGED users
  /\ UNCHANGED cardText
  /\ UNCHANGED attached
  /\ UNCHANGED auxVars

\* the order is still "new": accept it first, when the accept button of the
\* row tr[data-order-id=orderId] is visible
P_DeliverReaccept ==
  /\ prog = "perf" /\ pc = "p_wd_reaccept"
  /\ \E acceptBtnDelivery \in BOOLEAN, eff \in BOOLEAN :
       /\ env' = "degraded"
       /\ IF acceptBtnDelivery /\ orderId \in vis
          THEN /\ clicks' = clicks \cup {<<"accept", orderId>>}
               /\ status' = AppClick(status, orderId, "accept", eff)
               /\ Observe(status'[row])
               /\ Confirm("accept", obs')
          ELSE UNCHANGED <<clicks, status, obs, seen, confirmed>>
  /\ pc' = "p_wd_deliver"
  /\ skipped' = skipped \cup {"reaccept"}
  /\ UNCHANGED <<prog, orderId, page, outcome, open, closes, vis, row,
                 executed, menuItems>>
  /\ UNCHANGED <<qaVars, loginVars>>
  /\ UNCHANGED users
  /\ UNCHANGED cardText
  /\ UNCHANGED attached
  /\ UNCHANGED auxVars

\* deliver button of the row tr[data-order-id=orderId]: none, go on to the
\* payment; else click and poll data-status for 'delivered' (toPass 20000)
P_Deliver ==
  /\ prog = "perf" /\ pc = "p_wd_deliver"
  /\ \E deliverBtn \in BOOLEAN, eff \in BOOLEAN :
       /\ Degrade(deliverBtn /\ eff)
       /\ IF ~(deliverBtn /\ orderId \in vis)
          THEN /\ skipped' = skipped \cup {"deliver"}
               /\ pc' = "p_pay" /\ outcome' = outcome
               /\ UNCHANGED <<clicks, status, obs, seen, confirmed>>
          ELSE /\ clicks' = clicks \cup {<<"deliver", orderId>>}
               /\ status' = AppClick(status, orderId, "deliver", eff)
               /\ Observe(status'[row])
               /\ Confirm("deliver", obs')
               /\ skipped' = skipped \cup Unconfirmed("deliver", obs')
               /\ IF IsDelivered(obs')
                  THEN pc' = "p_pay" /\ outcome' = outcome
                  ELSE Throw
  /\ UNCHANGED <<prog, orderId, page, open, closes, vis, row, executed, menuItems>>
  /\ UNCHANGED <<qaVars, loginVars>>
  /\ UNCHANGED users
  /\ UNCHANGED cardText
  /\ UNCHANGED attached
  /\ UNCHANGED auxVars

\* PASO 5: pay button of the row tr[data-order-id=orderId]; none: throw
P_Pay ==
  /\ prog = "perf" /\ pc = "p_pay"
  /\ executed' = executed \cup {"pay"}
  /\ \E payBtn \in BOOLEAN :
       /\ Degrade(payBtn)
       /\ IF payBtn /\ orderId \in vis
          THEN /\ clicks' = clicks \cup {<<"pay", orderId>>}
               /\ pc' = "p_cash" /\ outcome' = outcome
               /\ skipped' = skipped
          ELSE /\ Throw
               /\ clicks' = clicks
               /\ skipped' = skipped \cup {"pay"}
  /\ UNCHANGED <<prog, orderId, status, page, open, closes, confirmed>>
  /\ UNCHANGED <<qaVars, loginVars, rowVars>>
  /\ UNCHANGED users
  /\ UNCHANGED cardText
  /\ UNCHANGED attached
  /\ UNCHANGED auxVars

\* the cash button clicked without the wait for it
P_Cash_NoWait ==
  /\ prog = "perf" /\ pc = "p_cash"
  /\ \E cashBtn \in BOOLEAN :
       /\ Degrade(cashBtn)
       /\ attached' = IF cashBtn THEN attached \cup {"cash"} ELSE attached
  /\ clicks' = clicks \cup {<<"cash", orderId>>}
  /\ pc' = "p_confirm" /\ outcome' = outcome
  /\ UNCHANGED <<prog, orderId, status, page, open, closes, confirmed, executed,
                 skipped>>
  /\ UNCHANGED <<qaVars, loginVars, rowVars>>
  /\ UNCHANGED users
  /\ UNCHANGED cardText
  /\ UNCHANGED auxVars

\* the cash button of the payment modal: wait until attached, click
P_Cash ==
  /\ prog = "perf" /\ pc = "p_cash"
  /\ \E cashBtn \in BOOLEAN :
       /\ Degrade(cashBtn)
       /\ attached' = IF cashBtn THEN attached \cup {"cash"} ELSE attached
       /\ IF cashBtn
          THEN /\ clicks' = clicks \cup {<<"cash", orderId>>}
               /\ pc' = "p_confirm" /\ outcome' = outcome
          ELSE /\ Throw
               /\ clicks' = clicks
  /\ UNCHANGED <<prog, orderId, status, page, open, closes, confirmed, executed,
                 skipped>>
  /\ UNCHANGED <<qaVars, loginVars, rowVars>>
  /\ UNCHANGED users
  /\ UNCHANGED cardText
  /\ UNCHANGED auxVars

\* #confirm-cash-payment: wait until attached, click
P_Confirm ==
  /\ prog = "perf" /\ pc = "p_confirm"
  /\ \E confirmCashBtn \in BOOLEAN, eff \in BOOLEAN :
       /\ Degrade(confirmCashBtn /\ eff)
       /\ attached' = IF confirmCashBtn THEN attached \cup {"confirm"} ELSE attached
       /\ IF confirmCashBtn
          THEN /\ clicks' = clicks \cup {<<"confirm", orderId>>}
               /\ status' = AppClick(status, orderId, "pay", eff)
               /\ pc' = "p_modals" /\ outcome' = outcome
          ELSE /\ Throw
               /\ UNCHANGED <<clicks, status>>
  /\ UNCHANGED <<prog, orderId, page, open, closes, confirmed, executed, skipped>>
  /\ UNCHANGED <<qaVars, loginVars, rowVars>>
  /\ UNCHANGED users
  /\ UNCHANGED cardText
  /\ UNCHANGED auxVars

\* tip and ticket modals are dismissed when visible; waiterDeliverContext.close()
P_Modals ==
  /\ prog = "perf" /\ pc = "p_modals"
  /\ \E tipModal \in BOOLEAN, ticketModal \in BOOLEAN :
       clicks' = clicks \cup (IF tipModal THEN {<<"skipTip", orderId>>} ELSE {})
                        \cup (IF ticketModal THEN {<<"closeTicket", orderId>>} ELSE {})
  /\ open' = Release(open, "waiterDeliver")
  /\ closes' = CloseOf(closes, "waiterDeliver")
  /\ vis' = {} /\ row' = 0
  /\ pc' = "p_verify"
  /\ UNCHANGED <<prog, orderId, status, page, outcome, confirmed, obs, seen, executed,
                 skipped, env>>
  /\ UNCHANGED <<qaVars, loginVars>>
  /\ UNCHANGED users
  /\ UNCHANGED cardText
  /\ UNCHANGED attached
  /\ UNCHANGED auxVars

\* a verification that polls for the paid text without a timeout
P_Verify_Unbounded ==
  /\ prog = "perf" /\ pc = "p_verify"
  /\ \E w \in DisplayTexts(status[customerOrder]), c \in Cases :
       /\ MatchesPaid([word |-> w, case |-> c])
       /\ cardText' = [word |-> w, case |-> c]
  /\ executed' = executed \cup {"verify"}
  /\ pc' = "done" /\ outcome' = "passed"
  /\ open' = open /\ closes' = CloseOf(closes, "verifier")
  /\ users' = Use(users, "verifier", "customer")
  /\ UNCHANGED <<prog, orderId, status, page, clicks, confirmed, skipped, env>>
  /\ UNCHANGED <<qaVars, loginVars, rowVars>>
  /\ UNCHANGED attached
  /\ UNCHANGED auxVars

\* PASO 6: a fresh context, the orders tab, the card of customerName and
\* its text, retried until it matches a paid word (toPass 20000)
P_Verify ==
  /\ prog = "perf" /\ pc = "p_verify"
  /\ executed' = executed \cup {"verify"}
  /\ pc' = "done"
  /\ \E card \in BOOLEAN, w \in DisplayTexts(status[customerOrder]), c \in Cases :
       /\ Degrade(card)
       /\ cardText' = IF card THEN [word |-> w, case |-> c] ELSE NoText
       /\ IF card /\ MatchesPaid([word |-> w, case |-> c])
          THEN /\ outcome' = "passed"
               /\ open' = open
               /\ closes' = CloseOf(closes, "verifier")
          ELSE /\ outcome' = "failed"
               /\ open' = open \cup {"verifier"}
               /\ closes' = closes
  /\ UNCHANGED <<prog, orderId, status, page, clicks, confirmed, skipped>>
  /\ UNCHANGED <<qaVars, loginVars, rowVars>>
  /\ users' = Use(users, "verifier", "customer")
  /\ UNCHANGED attached
  /\ UNCHANGED auxVars

NextPerf ==
  \/ P_Client \/ P_Resolve
  \/ P_Login \/ P_LoginRetry \/ P_LoginEnter
  \/ P_AcceptLocate \/ P_Accept
  \/ P_ChefLocate \/ P_ChefStart \/ P_ChefReady
  \/ P_DeliverLocate \/ P_DeliverReaccept \/ P_Deliver
  \/ P_Pay \/ P_Cash \/ P_Confirm \/ P_Modals \/ P_Verify

-----------------------------------------------------------------------------
(* qa-cycle.spec.ts: Complete order cycle from client to paid *)

Finding(sev, loc) == [severity |-> sev, location |-> loc]

\* a finding that is logged to the console only
logError_Dropped(errs, sev, loc) == errs
\* severity and location passed in each other's place
logError_Swapped(errs, sev, loc) == Append(errs, Finding(loc, sev))
\* logError(severity, description, location, impact, solution)
logError(errs, sev, loc) == Append(errs, Finding(sev, loc))

Responses == [ok : BOOLEAN, order_id : {0, 1}, id : {0, 1}]

\* a capture that never yields an id
FromResponse_Ignored(r) == 0
\* data.order_id?.toString() || data.id?.toString(), when response.ok()
FromResponse(r) == IF ~r.ok THEN 0
                   ELSE IF r.order_id # 0 THEN r.order_id ELSE r.id

\* data.orders?.[0]?.id of GET /api/orders/active
FromActive(list) == IF list = <<>> THEN 0 ELSE Head(list)

\* the order id: from the response, else the first active order
ResolveQa(r, list) == IF FromResponse(r) # 0 THEN FromResponse(r)
                      ELSE FromActive(list)

InitQa ==
  /\ prog = "qa"
  /\ pc = "q_client"
  /\ orderId = 0
  /\ status \in [Orders -> {"none", "new"}]
  /\ status[customerOrder] = "none"
  /\ active = IF status[2] = "none" THEN <<>> ELSE <<2>>
  /\ page = NoPage
  /\ response = NoResponse
  /\ errors = <<>>
  /\ outcome = "running"
  /\ open = {}
  /\ closes = NoCloses
  /\ clicks = {}
  /\ confirmed = {}
  /\ obs = "none"
  /\ seen = {}
  /\ vis = {}
  /\ row = 0
  /\ executed = {}
  /\ skipped = {}
  /\ url = "none"
  /\ retried = 0
  /\ report = NoReport
  /\ authFailed = {}
  /\ menuItems = 0
  /\ users = NoUsers
  /\ cardText = NoText
  /\ attached = {}
  /\ InitAux
  /\ env = "happy"

\* a catch per step: the run resumes with the cashier step
CatchQa_Resume ==
  /\ errors' = Append(errors, [severity |-> "CRITICAL", location |-> "Test execution"])
  /\ skipped' = skipped \cup {"thrown"}
  /\ pc' = IF pc = "q_cashier" THEN "q_report" ELSE "q_cashier"

\* catch (error): logError('CRITICAL', ..., 'Test execution', ...)
CatchQa ==
  /\ errors' = logError(errors, "CRITICAL", "Test execution")
  /\ skipped' = skipped \cup {"thrown"}
  /\ pc' = "q_report"

\* another customer's order is created in the backend
Q_OtherOrder ==
  /\ prog = "qa" /\ outcome = "running"
  /\ status[2] = "none"
  /\ status' = [status EXCEPT ![2] = "new"]
  /\ active' = <<2>> \o active
  /\ UNCHANGED <<prog, pc, orderId, page, response, errors, outcome, open, closes,
                 clicks, confirmed, executed, skipped, report, env>>
  /\ UNCHANGED <<loginVars, rowVars>>
  /\ UNCHANGED users
  /\ UNCHANGED cardText
  /\ UNCHANGED attached
  /\ UNCHANGED auxVars

\* Step 1: the customer creates the order; the POST response is captured
Q_Client ==
  /\ prog = "qa" /\ pc = "q_client"
  /\ open' = open \cup {"client"}
  /\ executed' = executed \cup {"client"}
  /\ \E thrown \in BOOLEAN, r \in Responses, listed \in BOOLEAN :
       /\ Degrade(~thrown /\ FromResponse(r) = customerOrder)
       /\ IF thrown
          THEN /\ CatchQa
               /\ UNCHANGED <<status, response, orderId, active>>
          ELSE /\ status' = [status EXCEPT ![customerOrder] = "new"]
               /\ active' = IF listed THEN <<customerOrder>> \o active ELSE active
               /\ response' = r
               /\ orderId' = FromResponse(r)
               /\ errors' = errors
               /\ skipped' = skipped
               /\ pc' = "q_resolve"
  /\ UNCHANGED <<prog, page, outcome, closes, clicks, confirmed, report>>
  /\ UNCHANGED <<loginVars, rowVars>>
  /\ users' = Use(users, "client", "customer")
  /\ UNCHANGED cardText
  /\ UNCHANGED attached
  /\ UNCHANGED auxVars

\* no id from the response: GET /api/orders/active; still none: a CRITICAL
\* finding; clientPage.close()
Q_Resolve ==
  /\ prog = "qa" /\ pc = "q_resolve"
  /\ \E thrown \in BOOLEAN :
       /\ Degrade(~thrown)
       /\ IF orderId = 0 /\ thrown
          THEN /\ CatchQa
               /\ UNCHANGED <<orderId, open, closes>>
          ELSE /\ orderId' = IF orderId = 0 THEN FromActive(active) ELSE orderId
               /\ errors' = IF orderId' = 0
                            THEN logError(errors, "CRITICAL", "Client checkout")
                            ELSE errors
               /\ skipped' = skipped \cup (IF orderId' = 0 THEN {"id"} ELSE {})
               /\ open' = Release(open, "client")
               /\ closes' = CloseOf(closes, "client")
               /\ pc' = "q_waiter"
  /\ UNCHANGED <<prog, status, page, response, active, outcome, clicks, confirmed,
                 executed, report>>
  /\ UNCHANGED <<loginVars, rowVars>>
  /\ UNCHANGED users
  /\ UNCHANGED cardText
  /\ UNCHANGED attached
  /\ UNCHANGED auxVars

\* loginToConsole: a new context, the login form, no check of the result.
\* A step closes the page it got, never the context.
\* A failed login leaves the login page, which shows no row and no control.
Dashboards(loggedIn) == IF loggedIn THEN SUBSET Orders ELSE {{}}

\* a lookup that takes the first "Aceptar" button of the page at once
TargetWaiter_AlwaysFirst(id, v, first) ==
  IF id = 0 THEN 0 ELSE IF first \in v THEN first ELSE 0

\* the order whose accept button the waiter step takes: the order's row,
\* else the first "Aceptar" button of the page (0: none)
TargetWaiter(id, v, first) ==
  IF id = 0 THEN 0
  ELSE IF id \in v THEN id
  ELSE IF first \in v THEN first ELSE 0

\* targetRow of the chef step: the order's row, else the first kitchen row
TargetChef(id, v, first) ==
  IF id = 0 \/ v = {} THEN 0
  ELSE IF id \in v THEN id
  ELSE IF first \in v THEN first
  ELSE CHOOSE o \in v : TRUE

\* the second waiter step works in the order's row only
TargetWaiter2(id, v) == IF id # 0 /\ id \in v THEN id ELSE 0

\* Step 2: the waiter accepts the order, or with no row of the order the
\* first "Aceptar" button of the page
Q_Waiter ==
  /\ prog = "qa" /\ pc = "q_waiter"
  /\ executed' = executed \cup {"waiter"}
  /\ \E thrown \in BOOLEAN, loggedIn \in BOOLEAN :
       \E v \in Dashboards(loggedIn), first \in Orders, acceptBtn \in BOOLEAN,
          eff \in BOOLEAN :
         /\ Degrade(~thrown /\ loggedIn /\ orderId \in v /\ acceptBtn /\ eff)
         /\ IF thrown
            THEN /\ CatchQa
                 /\ open' = open \cup {"waiter"}
                 /\ UNCHANGED <<closes, clicks, status, authFailed, vis>>
            ELSE /\ vis' = v
                 /\ authFailed' = IF loggedIn THEN authFailed
                                  ELSE authFailed \cup {"waiter"}
                 /\ LET target == TargetWaiter(orderId, v, first)
                    IN IF target # 0 /\ acceptBtn
                       THEN /\ clicks' = clicks \cup {<<"accept", target>>}
                            /\ status' = AppClick(status, target, "accept", eff)
                            /\ skipped' = skipped
                       ELSE /\ skipped' = skipped
                                 \cup (IF orderId # 0 THEN {"accept"} ELSE {})
                            /\ UNCHANGED <<clicks, status>>
                 /\ open' = open \cup {"waiter"}
                 /\ closes' = CloseOf(closes, "waiter")
                 /\ errors' = errors
                 /\ pc' = "q_chef"
  /\ UNCHANGED <<prog, orderId, page, response, active, outcome, confirmed, report,
                 url, retried>>
  /\ UNCHANGED <<row, obs, seen, menuItems>>
  /\ users' = Use(users, "waiter", "waiter")
  /\ UNCHANGED cardText
  /\ UNCHANGED attached
  /\ UNCHANGED auxVars

\* Step 3: the chef starts and readies the order's row, or the first
\* kitchen row; no kitchen row at all: a MEDIUM finding
Q_Chef ==
  /\ prog = "qa" /\ pc = "q_chef"
  /\ executed' = executed \cup {"chef"}
  /\ \E thrown \in BOOLEAN, loggedIn \in BOOLEAN :
       \E v \in Dashboards(loggedIn), first \in Orders, startBtn \in BOOLEAN,
          readyBtn \in BOOLEAN, eff \in BOOLEAN :
         /\ Degrade(~thrown /\ loggedIn /\ orderId \in v /\ startBtn /\ readyBtn /\ eff)
         /\ IF thrown
            THEN /\ CatchQa
                 /\ open' = open \cup {"chef"}
                 /\ UNCHANGED <<closes, clicks, status, authFailed, vis>>
            ELSE /\ vis' = v
                 /\ authFailed' = IF loggedIn THEN authFailed
                                  ELSE authFailed \cup {"chef"}
                 /\ LET target == TargetChef(orderId, v, first)
                        c1 == IF target # 0 /\ startBtn
                              THEN {<<"start", target>>} ELSE {}
                        c2 == IF target # 0 /\ readyBtn
                              THEN {<<"ready", target>>} ELSE {}
                        s1 == AppClick(status, target, "start", eff /\ startBtn)
                    IN /\ clicks' = clicks \cup c1 \cup c2
                       /\ status' = AppClick(s1, target, "ready", eff /\ readyBtn)
                       /\ skipped' = skipped
                            \cup (IF v = {} THEN {"kitchen"} ELSE {})
                            \cup (IF v # {} /\ orderId # 0 /\ c1 = {}
                                  THEN {"start"} ELSE {})
                            \cup (IF v # {} /\ orderId # 0 /\ c2 = {}
                                  THEN {"ready"} ELSE {})
                 /\ errors' = IF v = {}
                              THEN logError(errors, "MEDIUM", "Chef dashboard")
                              ELSE errors
                 /\ open' = open \cup {"chef"}
                 /\ closes' = CloseOf(closes, "chef")
                 /\ pc' = "q_waiter2"
  /\ UNCHANGED <<prog, orderId, page, response, active, outcome, confirmed, report,
                 url, retried>>
  /\ UNCHANGED <<row, obs, seen, menuItems>>
  /\ users' = Use(users, "chef", "chef")
  /\ UNCHANGED cardText
  /\ UNCHANGED attached
  /\ UNCHANGED auxVars

\* Step 4: the waiter delivers and takes the cash payment in the order's row
Q_Waiter2 ==
  /\ prog = "qa" /\ pc = "q_waiter2"
  /\ executed' = executed \cup {"waiter2"}
  /\ \E thrown \in BOOLEAN, loggedIn \in BOOLEAN :
       \E v \in Dashboards(loggedIn), deliverBtn \in BOOLEAN, cashBtn \in BOOLEAN,
          eff \in BOOLEAN :
         /\ Degrade(~thrown /\ loggedIn /\ orderId \in v /\ deliverBtn /\ cashBtn /\ eff)
         /\ IF thrown
            THEN /\ CatchQa
                 /\ open' = open \cup {"waiter2"}
                 /\ UNCHANGED <<closes, clicks, status, authFailed, vis>>
            ELSE /\ vis' = v
                 /\ authFailed' = IF loggedIn THEN authFailed
                                  ELSE authFailed \cup {"waiter2"}
                 /\ LET target == TargetWaiter2(orderId, v)
                        c1 == IF target # 0 /\ deliverBtn
                              THEN {<<"deliver", target>>} ELSE {}
                        c2 == IF target # 0 /\ cashBtn
                              THEN {<<"cash", target>>} ELSE {}
                        s1 == AppClick(status, target, "deliver", eff /\ deliverBtn)
                    IN /\ clicks' = clicks \cup c1 \cup c2
                       /\ status' = AppClick(s1, target, "pay", eff /\ cashBtn)
                       /\ skipped' = skipped
                            \cup (IF orderId # 0 /\ c1 = {} THEN {"deliver"} ELSE {})
                            \cup (IF orderId # 0 /\ c2 = {} THEN {"pay"} ELSE {})
                 /\ errors' = errors
                 /\ open' = open \cup {"waiter2"}
                 /\ closes' = CloseOf(closes, "waiter2")
                 /\ pc' = "q_cashier"
  /\ UNCHANGED <<prog, orderId, page, response, active, outcome, confirmed, report,
                 url, retried>>
  /\ UNCHANGED <<row, obs, seen, menuItems>>
  /\ users' = Use(users, "waiter2", "waiter")
  /\ UNCHANGED cardText
  /\ UNCHANGED attached
  /\ UNCHANGED auxVars

\* Step 5: the cashier opens the paid tab; no PDF button: a LOW finding
Q_Cashier ==
  /\ prog = "qa" /\ pc = "q_cashier"
  /\ executed' = executed \cup {"cashier"}
  /\ \E thrown \in BOOLEAN, loggedIn \in BOOLEAN, pdfBtn \in BOOLEAN :
       /\ Degrade(~thrown /\ loggedIn /\ pdfBtn)
       /\ IF thrown
          THEN /\ CatchQa
               /\ open' = open \cup {"cashier"}
               /\ UNCHANGED <<closes, authFailed>>
          ELSE /\ authFailed' = IF loggedIn THEN authFailed
                                ELSE authFailed \cup {"cashier"}
               /\ errors' = IF loggedIn /\ pdfBtn THEN errors
                            ELSE logError(errors, "LOW", "Cashier dashboard")
               /\ skipped' = skipped
                    \cup (IF loggedIn /\ pdfBtn THEN {} ELSE {"pdf"})
               /\ open' = open \cup {"cashier"}
               /\ closes' = CloseOf(closes, "cashier")
               /\ pc' = "q_report"
  /\ UNCHANGED <<prog, orderId, status, page, response, active, outcome, clicks,
                 confirmed, report, url, retried>>
  /\ UNCHANGED rowVars
  /\ users' = Use(users, "cashier", "cashier")
  /\ UNCHANGED cardText
  /\ UNCHANGED attached
  /\ UNCHANGED auxVars

\* Report errors: any finding throws, and the test fails
Q_Report ==
  /\ prog = "qa" /\ pc = "q_report"
  /\ outcome' = IF Len(errors) > 0 THEN "failed" ELSE "passed"
  /\ pc' = "done"
  /\ UNCHANGED <<prog, orderId, status, page, response, active, errors, open, closes,
                 clicks, confirmed, executed, skipped, report, env>>
  /\ UNCHANGED <<loginVars, rowVars>>
  /\ UNCHANGED users
  /\ UNCHANGED cardText
  /\ UNCHANGED attached
  /\ UNCHANGED auxVars

NextQa ==
  \/ Q_OtherOrder \/ Q_Client \/ Q_Resolve \/ Q_Waiter \/ Q_Chef
  \/ Q_Waiter2 \/ Q_Cashier \/ Q_Report

-----------------------------------------------------------------------------
(* pronto-qa-test.cjs: the main async IIFE *)

\* captureError(severity, description, location, impact, solution)
captureError(errs, sev, loc) == Append(errs, Finding(sev, loc))

\* a count that does not look at the severity
CountSeverity_All(errs, sev) == Len(errs)
\* errors.filter((e) => e.severity === sev).length
CountSeverity(errs, sev) ==
  Cardinality({i \in 1..Len(errs) : errs[i].severity = sev})

\* the report object handed to fs.writeFileSync
MakeReport(errs) ==
  [written |-> TRUE, total |-> Len(errs),
   critical |-> CountSeverity(errs, "CRITICAL"),
   high |-> CountSeverity(errs, "HIGH"),
   medium |-> CountSeverity(errs, "MEDIUM"),
   low |-> CountSeverity(errs, "LOW"),
   errors |-> errs]

\* captureError when cond holds
CaptureIf(errs, cond, sev, loc) ==
  IF cond THEN captureError(errs, sev, loc) ELSE errs

InitMain ==
  /\ prog = "main"
  /\ pc = "m_launch"
  /\ orderId = 0
  /\ status = [o \in Orders |-> "none"]
  /\ active = <<>>
  /\ page = NoPage
  /\ response = NoResponse
  /\ errors = <<>>
  /\ outcome = "running"
  /\ open = {}
  /\ closes = NoCloses
  /\ clicks = {}
  /\ confirmed = {}
  /\ obs = "none"
  /\ seen = {}
  /\ vis = {}
  /\ row = 0
  /\ executed = {}
  /\ skipped = {}
  /\ url = "none"
  /\ retried = 0
  /\ report = NoReport
  /\ authFailed = {}
  /\ menuItems = 0
  /\ users = NoUsers
  /\ cardText = NoText
  /\ attached = {}
  /\ InitAux
  /\ env = "happy"

mainFrame == <<prog, orderId, status, page, response, active, clicks, confirmed,
               skipped, url, retried, authFailed>>

\* catch (error): captureError('CRITICAL', ...); finally: browser.close().
\* Nothing sets an exit code: the process ends with status 0.
CatchMain ==
  /\ errors' = captureError(errors, "CRITICAL", "N/A")
  /\ closes' = IF "browser" \in open THEN CloseOf(closes, "browser") ELSE closes
  /\ open' = {}
  /\ outcome' = "passed"
  /\ pc' = "done"

\* a phase that did not throw
PhaseMain(fase, errs, nextPc) ==
  /\ errors' = errs
  /\ executed' = executed \cup {fase}
  /\ pc' = nextPc
  /\ UNCHANGED <<outcome, open, closes>>

\* chromium.launch, one context, clientPage and employeePage
M_Launch ==
  /\ prog = "main" /\ pc = "m_launch"
  /\ \E thrown \in BOOLEAN :
       /\ Degrade(~thrown)
       /\ IF thrown
          THEN CatchMain /\ executed' = executed
          ELSE /\ open' = {"browser"}
               /\ pc' = "m_fase1"
               /\ UNCHANGED <<errors, outcome, closes, executed>>
  /\ UNCHANGED <<mainFrame, report>>
  /\ UNCHANGED rowVars
  /\ UNCHANGED users
  /\ UNCHANGED cardText
  /\ UNCHANGED attached
  /\ UNCHANGED auxVars

\* FASE 1: the customer menu
M_Fase1 ==
  /\ prog = "main" /\ pc = "m_fase1"
  /\ \E thrown \in BOOLEAN, items \in 0..1, hasMenuRoot \in 0..1 :
       /\ Degrade(~thrown /\ items > 0 /\ hasMenuRoot > 0)
       /\ IF thrown
          THEN CatchMain /\ executed' = executed /\ menuItems' = menuItems
          ELSE /\ PhaseMain("fase1",
                    CaptureIf(CaptureIf(errors, items = 0, "CRITICAL",
                                        "localhost:6080 - Menu principal"),
                              hasMenuRoot = 0, "HIGH", "localhost:6080"),
                    "m_fase2")
               /\ menuItems' = items
  /\ UNCHANGED <<mainFrame, report, vis, row, obs, seen>>
  /\ users' = Use(users, "browser", "customer")
  /\ UNCHANGED cardText
  /\ UNCHANGED attached
  /\ UNCHANGED auxVars

\* FASE 2: add a product (only when the menu shows items)
M_Fase2 ==
  /\ prog = "main" /\ pc = "m_fase2"
  /\ \E thrown \in BOOLEAN, modalActive \in BOOLEAN, addToCartVisible \in BOOLEAN,
        cartItemCount \in 0..1 :
       /\ Degrade(~thrown /\ modalActive /\ addToCartVisible /\ cartItemCount > 0)
       /\ IF thrown
          THEN CatchMain /\ executed' = executed
          ELSE PhaseMain("fase2",
                 IF menuItems = 0 THEN errors
                 ELSE CaptureIf(CaptureIf(errors, ~modalActive, "HIGH",
                                          "localhost:6080 - Tarjeta de producto"),
                                addToCartVisible /\ cartItemCount = 0, "HIGH",
                                "localhost:6080 - Carrito"),
                 "m_fase3")
  /\ UNCHANGED <<mainFrame, report>>
  /\ UNCHANGED rowVars
  /\ UNCHANGED users
  /\ UNCHANGED cardText
  /\ UNCHANGED attached
  /\ UNCHANGED auxVars

\* FASE 3: checkout
M_Fase3 ==
  /\ prog = "main" /\ pc = "m_fase3"
  /\ \E thrown \in BOOLEAN, checkoutBtn \in BOOLEAN, emailVisible \in BOOLEAN,
        confirmVisible \in BOOLEAN :
       /\ Degrade(~thrown /\ checkoutBtn /\ emailVisible /\ confirmVisible)
       /\ IF thrown
          THEN CatchMain /\ executed' = executed
          ELSE PhaseMain("fase3",
                 IF ~checkoutBtn THEN errors
                 ELSE CaptureIf(CaptureIf(errors, ~emailVisible, "MEDIUM",
                                          "localhost:6080/checkout"),
                                ~confirmVisible, "HIGH", "localhost:6080/checkout"),
                 "m_fase4")
  /\ UNCHANGED <<mainFrame, report>>
  /\ UNCHANGED rowVars
  /\ UNCHANGED users
  /\ UNCHANGED cardText
  /\ UNCHANGED attached
  /\ UNCHANGED auxVars

\* FASE 4 and 5: the employee login and the employee page
M_Fase4 ==
  /\ prog = "main" /\ pc = "m_fase4"
  /\ \E thrown \in BOOLEAN, hasLoginForm \in 0..1,
        dashboardUrl \in {"/waiter", "/login", "/"} :
       /\ Degrade(~thrown /\ hasLoginForm > 0 /\ dashboardUrl = "/waiter")
       /\ users' = IF hasLoginForm > 0 THEN Use(users, "browser", "waiter")
                   ELSE users
       /\ IF thrown
          THEN CatchMain /\ executed' = executed
          ELSE PhaseMain("fase4",
                 CaptureIf(errors, hasLoginForm > 0 /\ dashboardUrl = "/login",
                           "HIGH", "localhost:6081 - Login"),
                 "m_fase6")
  /\ UNCHANGED <<mainFrame, report>>
  /\ UNCHANGED rowVars
  /\ UNCHANGED cardText
  /\ UNCHANGED attached
  /\ UNCHANGED auxVars

\* FASE 6: the cash payment, the PDF link and the email confirmation
M_Fase6 ==
  /\ prog = "main" /\ pc = "m_fase6"
  /\ \E thrown \in BOOLEAN, payVisible \in BOOLEAN, cashVisible \in BOOLEAN,
        pdfLink \in 0..1, emailSent \in 0..1 :
       /\ Degrade(~thrown /\ payVisible /\ cashVisible /\ pdfLink > 0 /\ emailSent > 0)
       /\ IF thrown
          THEN CatchMain /\ executed' = executed
          ELSE PhaseMain("fase6",
                 IF ~(payVisible /\ cashVisible) THEN errors
                 ELSE CaptureIf(CaptureIf(errors, pdfLink = 0, "MEDIUM",
                                          "localhost:6081/waiter - Ordenes pagadas"),
                                emailSent = 0, "LOW", "localhost:6081 - Post pago"),
                 "m_fase7")
  /\ UNCHANGED <<mainFrame, report>>
  /\ UNCHANGED rowVars
  /\ UNCHANGED users
  /\ UNCHANGED cardText
  /\ UNCHANGED attached
  /\ UNCHANGED auxVars

\* FASE 7: orders shown as ATRASADO
M_Fase7 ==
  /\ prog = "main" /\ pc = "m_fase7"
  /\ \E thrown \in BOOLEAN, atrasado \in 0..1 :
       /\ Degrade(~thrown /\ atrasado = 0)
       /\ IF thrown
          THEN CatchMain /\ executed' = executed
          ELSE PhaseMain("fase7",
                 CaptureIf(errors, atrasado > 0, "LOW", "localhost:6081"),
                 "m_report")
  /\ UNCHANGED <<mainFrame, report>>
  /\ UNCHANGED rowVars
  /\ UNCHANGED users
  /\ UNCHANGED cardText
  /\ UNCHANGED attached
  /\ UNCHANGED auxVars

\* RESUMEN, then the report file is written; finally: browser.close().
\* Nothing sets an exit code: the process ends with status 0.
M_Report ==
  /\ prog = "main" /\ pc = "m_report"
  /\ \E thrown \in BOOLEAN :
       /\ Degrade(~thrown)
       /\ IF thrown
          THEN CatchMain /\ report' = report
          ELSE /\ report' = MakeReport(errors)
               /\ errors' = errors
               /\ closes' = CloseOf(closes, "browser")
               /\ open' = {}
               /\ outcome' = "passed"
               /\ pc' = "done"
  /\ executed' = executed
  /\ UNCHANGED mainFrame
  /\ UNCHANGED rowVars
  /\ UNCHANGED users
  /\ UNCHANGED cardText
  /\ UNCHANGED attached
  /\ UNCHANGED auxVars

NextMain ==
  \/ M_Launch \/ M_Fase1 \/ M_Fase2 \/ M_Fase3 \/ M_Fase4 \/ M_Fase6
  \/ M_Fase7 \/ M_Report

-----------------------------------------------------------------------------
(* unnamed/part_010: the full cycle on two pages of one context, with
   console listeners *)

\* the harness variables this program and the scripts below do not use
idleVars == <<orderId, status, page, response, active, clicks, confirmed, obs,
              seen, vis, row, skipped, url, retried, authFailed, menuItems,
              users, cardText, attached, env>>

InitIdle ==
  /\ orderId = 0
  /\ status = [o \in Orders |-> "none"]
  /\ active = <<>>
  /\ page = NoPage
  /\ response = NoResponse
  /\ clicks = {}
  /\ confirmed = {}
  /\ obs = "none"
  /\ seen = {}
  /\ vis = {}
  /\ row = 0
  /\ skipped = {}
  /\ url = "none"
  /\ retried = 0
  /\ authFailed = {}
  /\ menuItems = 0
  /\ users = NoUsers
  /\ cardText = NoText
  /\ attached = {}
  /\ env = "happy"

\* console events delivered to the listeners in one run
MaxEvents == 2

\* a listener that captures messages of every type
OnConsole_EveryType(errs, type, loc) == captureError(errs, "MEDIUM", loc)
\* page.on("console", msg => { if (msg.type() === "error") captureError("MEDIUM", ...) })
OnConsole(errs, type, loc) ==
  IF type = "error" THEN captureError(errs, "MEDIUM", loc) ELSE errs

\* the counts printed under RESUMEN: the total always, the counts by
\* severity when there is an error
Summarize(errs) ==
  [printed |-> TRUE, total |-> Len(errs),
   critical |-> IF Len(errs) = 0 THEN 0 ELSE CountSeverity(errs, "CRITICAL"),
   high |-> IF Len(errs) = 0 THEN 0 ELSE CountSeverity(errs, "HIGH"),
   medium |-> IF Len(errs) = 0 THEN 0 ELSE CountSeverity(errs, "MEDIUM"),
   low |-> IF Len(errs) = 0 THEN 0 ELSE CountSeverity(errs, "LOW")]

InitFlow ==
  /\ prog = "flow"
  /\ pc = "f_launch"
  /\ errors = <<>>
  /\ outcome = "running"
  /\ open = {}
  /\ closes = NoCloses
  /\ executed = {}
  /\ report = NoReport
  /\ InitIdle
  /\ InitAux

flowFrame == <<prog, idleVars>>

\* catch (error): captureError("CRITICAL", ..., "N/A", ...); the finally
\* block is next
CatchFlow ==
  /\ errors' = captureError(errors, "CRITICAL", "N/A")
  /\ pc' = "f_close"

\* chromium.launch, one context, both pages and their console listeners
F_Launch ==
  /\ prog = "flow" /\ pc = "f_launch"
  /\ \E thrown \in BOOLEAN :
       IF thrown
       THEN CatchFlow /\ open' = open
       ELSE /\ open' = {"browser"}
            /\ pc' = "f_fase1"
            /\ errors' = errors
  /\ UNCHANGED <<outcome, closes, executed, report, summary, events>>
  /\ UNCHANGED flowFrame
  /\ UNCHANGED loginAux
  /\ UNCHANGED shAux

\* the checks a phase may fail: none or one of them
FaseChecks(fase) ==
  CASE fase = "fase1" -> {<<"CRITICAL", "localhost:6080 - Menú principal">>,
                          <<"HIGH", "localhost:6080 - Tarjeta de producto">>,
                          <<"HIGH", "localhost:6080 - Carrito">>}
    [] fase = "fase2" -> {<<"MEDIUM", "localhost:6080/checkout">>,
                          <<"HIGH", "localhost:6080/checkout">>}
    [] fase = "fase3" -> {<<"MEDIUM", "localhost:6081/waiter/dashboard">>}
    [] fase = "fase4" -> {}
    [] fase = "fase5" -> {<<"MEDIUM", "localhost:6081/waiter - Panel de órdenes pagadas">>,
                          <<"LOW", "localhost:6081">>,
                          <<"LOW", "localhost:6081/waiter - Post pago">>}

FasePc(fase) == CASE fase = "fase1" -> "f_fase1" [] fase = "fase2" -> "f_fase2"
                  [] fase = "fase3" -> "f_fase3" [] fase = "fase4" -> "f_fase4"
                  [] fase = "fase5" -> "f_fase5"

AfterFase(fase) == CASE fase = "fase1" -> "f_fase2" [] fase = "fase2" -> "f_fase3"
                     [] fase = "fase3" -> "f_fase4" [] fase = "fase4" -> "f_fase5"
                     [] fase = "fase5" -> "f_report"

\* FASE 1 to FASE 5: the awaits of the phase and its captureError calls
F_Fase(fase) ==
  /\ prog = "flow" /\ pc = FasePc(fase)
  /\ executed' = executed \cup {fase}
  /\ \/ CatchFlow
     \/ /\ pc' = AfterFase(fase)
        /\ \/ errors' = errors
           \/ \E f \in FaseChecks(fase) : errors' = captureError(errors, f[1], f[2])
  /\ UNCHANGED <<outcome, open, closes, report, summary, events>>
  /\ UNCHANGED flowFrame
  /\ UNCHANGED loginAux
  /\ UNCHANGED shAux

\* RESUMEN and "Guardar reporte": no await from the summary to writeFileSync
F_Report ==
  /\ prog = "flow" /\ pc = "f_report"
  /\ summary' = Summarize(errors)
  /\ \E thrown \in BOOLEAN :
       IF thrown
       THEN CatchFlow /\ report' = report
       ELSE /\ report' = MakeReport(errors)
            /\ errors' = errors
            /\ pc' = "f_close"
  /\ UNCHANGED <<outcome, open, closes, executed, events>>
  /\ UNCHANGED flowFrame
  /\ UNCHANGED loginAux
  /\ UNCHANGED shAux

\* a console message of a page reaches its listener while the main flow is
\* suspended in an await
F_Console ==
  /\ prog = "flow" /\ "browser" \in open
  /\ Len(events) < MaxEvents
  /\ \E type \in {"error", "log"}, loc \in {"localhost:6080", "localhost:6081"} :
       /\ events' = Append(events, <<type, loc>>)
       /\ errors' = OnConsole(errors, type, loc)
  /\ UNCHANGED <<pc, outcome, open, closes, executed, report, summary>>
  /\ UNCHANGED flowFrame
  /\ UNCHANGED loginAux
  /\ UNCHANGED shAux

\* finally: if (browser) await browser.close(); nothing sets an exit code
F_Close ==
  /\ prog = "flow" /\ pc = "f_close"
  /\ closes' = IF "browser" \in open THEN CloseOf(closes, "browser") ELSE closes
  /\ open' = {}
  /\ outcome' = "passed"
  /\ pc' = "done"
  /\ UNCHANGED <<errors, executed, report, summary, events>>
  /\ UNCHANGED flowFrame
  /\ UNCHANGED loginAux
  /\ UNCHANGED shAux

NextFlow ==
  \/ F_Launch
  \/ \E fase \in {"fase1", "fase2", "fase3", "fase4", "fase5"} : F_Fase(fase)
  \/ F_Report \/ F_Console \/ F_Close

-----------------------------------------------------------------------------
(* The role login tests: test_login_flows.spec.ts, auth.spec.ts,
   chef_notifications.spec.ts *)

\* "flows": <role> login rejects auth errors and returns success payload;
\* "auth": <role> credentials authenticate successfully;
\* "chef": chef can login via API
LoginTests == {"flows", "auth", "chef"}

InitLogin ==
  /\ prog = "login"
  /\ pc = "l_page"
  /\ test \in LoginTests
  /\ http = NoHttp
  /\ errors = <<>>
  /\ outcome = "running"
  /\ open = {}
  /\ closes = NoCloses
  /\ executed = {}
  /\ report = NoReport
  /\ InitIdle
  /\ InitFlowAux
  /\ InitShAux

loginFrame == <<prog, idleVars, flowAux, test, errors, open, closes, executed,
                report>>

\* a failed expect(...) ends the test as failed
ExpectFails == pc' = "done" /\ outcome' = "failed"

\* a login answered with another status than 200 skips the test
NotOk_Skip == pc' = "done" /\ outcome' = "skipped"

\* GET of the login page and the csrf-token meta
L_Page ==
  /\ prog = "login" /\ pc = "l_page"
  /\ \E st \in {200, 500}, csrf \in BOOLEAN :
       /\ http' = [http EXCEPT !.page = st, !.csrf = csrf]
       /\ IF test \in {"flows", "auth"} /\ (st # 200 \/ ~csrf)
          THEN ExpectFails
          ELSE pc' = "l_post" /\ outcome' = outcome
  /\ UNCHANGED loginFrame
  /\ UNCHANGED shAux

\* POST of the credentials, the status and the payload of the answer
L_Post ==
  /\ prog = "login" /\ pc = "l_post"
  /\ \E st \in {200, 401}, payload \in {"success", "error"} :
       /\ http' = [http EXCEPT !.login = st, !.payload = payload]
       /\ IF test = "chef"
          THEN IF st = 200
               THEN /\ pc' = "done"
                    /\ outcome' = IF payload = "success" THEN "passed" ELSE "failed"
               ELSE NotOk_Skip
          ELSE IF st # 200 \/ payload # "success"
               THEN ExpectFails
               ELSE IF test = "auth"
                    THEN pc' = "l_me" /\ outcome' = outcome
                    ELSE pc' = "done" /\ outcome' = "passed"
  /\ UNCHANGED loginFrame
  /\ UNCHANGED shAux

\* GET /api/employees/auth/me after the login
L_Me ==
  /\ prog = "login" /\ pc = "l_me"
  /\ \E st \in {200, 401} :
       /\ http' = [http EXCEPT !.me = st]
       /\ pc' = "done"
       /\ outcome' = IF st = 200 THEN "passed" ELSE "failed"
  /\ UNCHANGED loginFrame
  /\ UNCHANGED shAux

NextLogin == L_Page \/ L_Post \/ L_Me

-----------------------------------------------------------------------------
(* run-tests.sh (unnamed/part_001), mode "all" *)

Suites == <<"unit", "api", "ui", "e2e", "performance", "design">>

\* the commands a suite is run with, in the order they are looked for
SuiteCmds(suite) ==
  CASE suite = "unit" -> <<"npm", "python">>
    [] suite = "api" -> <<".venv-test/bin/pytest", "pytest">>
    [] OTHER -> <<"npx">>

\* have_cmd / [[ -x ... ]] for one of the suite's commands
Available(suite, found) ==
  \E i \in 1..Len(SuiteCmds(suite)) : SuiteCmds(suite)[i] \in found

\* a run_step that clears the flag after a step that succeeded
run_step_Reset(flag, ok) == IF ok THEN 0 ELSE 1
\* run_step: the flag is set when the step's command fails; returns 0
run_step(flag, ok) == IF ok THEN flag ELSE 1

shellFrame == <<prog, idleVars, flowAux, loginAux, errors, open, closes,
                report>>

InitRunTests ==
  /\ prog = "runtests"
  /\ pc = "rt_suite"
  /\ fail = 0
  /\ cmds \in SUBSET {"npm", "python", ".venv-test/bin/pytest", "pytest", "npx"}
  /\ truth = <<>>
  /\ RESULTS = <<>>
  /\ executed = {}
  /\ errors = <<>>
  /\ outcome = "running"
  /\ open = {}
  /\ closes = NoCloses
  /\ report = NoReport
  /\ InitIdle
  /\ InitFlowAux
  /\ InitLoginAux

\* the next suite of "all": run it with run_step when one of its commands
\* is there, else MISSING and fail=1
RT_Suite ==
  /\ prog = "runtests" /\ pc = "rt_suite"
  /\ LET suite == Suites[Len(truth) + 1] IN
       IF Available(suite, cmds)
       THEN \E ok \in BOOLEAN :
              /\ fail' = run_step(fail, ok)
              /\ truth' = Append(truth, <<suite, IF ok THEN "ok" ELSE "failed">>)
              /\ executed' = executed \cup {suite}
       ELSE /\ fail' = 1
            /\ truth' = Append(truth, <<suite, "missing">>)
            /\ executed' = executed
  /\ pc' = IF Len(truth') = Len(Suites) THEN "rt_exit" ELSE "rt_suite"
  /\ UNCHANGED <<outcome, RESULTS, cmds>>
  /\ UNCHANGED shellFrame

\* exit 0 when fail is 0, else exit 1
RT_Exit ==
  /\ prog = "runtests" /\ pc = "rt_exit"
  /\ outcome' = IF fail = 0 THEN "passed" ELSE "failed"
  /\ pc' = "done"
  /\ UNCHANGED <<fail, RESULTS, cmds, truth, executed>>
  /\ UNCHANGED shellFrame

NextRunTests == RT_Suite \/ RT_Exit

-----------------------------------------------------------------------------
(* scripts/bin/run-all-tests.sh *)

Phases == <<"unit", "api", "playwright">>

\* exit status of a pipeline: with pipefail the rightmost non-zero status,
\* without it the status of the last command
RECURSIVE PipeStatus(_, _)
PipeStatus(statuses, pipefail) ==
  IF Len(statuses) = 1 THEN statuses[1]
  ELSE LET last == statuses[Len(statuses)] IN
         IF pipefail /\ last = 0
         THEN PipeStatus(SubSeq(statuses, 1, Len(statuses) - 1), pipefail)
         ELSE last

\* test_command: cd '<dir>' && <tests> 2>&1 | head -100, under set -e only
TestCommand(cdStatus, testsStatus) ==
  IF cdStatus # 0 THEN cdStatus ELSE PipeStatus(<<testsStatus, 0>>, FALSE)

\* run_tests: 0 when eval "$test_command" succeeds, else 1
run_tests(cdStatus, testsStatus) ==
  IF TestCommand(cdStatus, testsStatus) = 0 THEN 0 ELSE 1

InitRunAll ==
  /\ prog = "runall"
  /\ pc = "ra_phase"
  /\ fail = 0
  /\ cmds = {}
  /\ truth = <<>>
  /\ RESULTS = <<>>
  /\ executed = {}
  /\ errors = <<>>
  /\ outcome = "running"
  /\ open = {}
  /\ closes = NoCloses
  /\ report = NoReport
  /\ InitIdle
  /\ InitFlowAux
  /\ InitLoginAux

\* FASE 1 to 3: run_tests and RESULTS+=("<type>:OK"|"<type>:FAIL"); the
\* playwright phase is recorded SKIP when its folder is not there
RA_Phase ==
  /\ prog = "runall" /\ pc = "ra_phase"
  /\ LET type == Phases[Len(RESULTS) + 1] IN
       \E folder \in BOOLEAN, cdStatus \in {0, 1}, testsStatus \in {0, 1} :
         IF type = "playwright" /\ ~folder
         THEN /\ RESULTS' = Append(RESULTS, <<type, "SKIP">>)
              /\ truth' = Append(truth, <<type, "skipped">>)
              /\ executed' = executed
         ELSE /\ RESULTS' = Append(RESULTS,
                   <<type, IF run_tests(cdStatus, testsStatus) = 0
                           THEN "OK" ELSE "FAIL">>)
              /\ truth' = Append(truth,
                   <<type, IF cdStatus = 0 /\ testsStatus = 0
                           THEN "ok" ELSE "failed">>)
              /\ executed' = executed \cup {type}
  /\ pc' = IF Len(RESULTS') = Len(Phases) THEN "ra_exit" ELSE "ra_phase"
  /\ UNCHANGED <<outcome, fail, cmds>>
  /\ UNCHANGED shellFrame

\* exit 1 when RESULTS holds a FAIL, else exit 0
RA_Exit ==
  /\ prog = "runall" /\ pc = "ra_exit"
  /\ outcome' = IF \E i \in 1..Len(RESULTS) : RESULTS[i][2] = "FAIL"
                THEN "failed" ELSE "passed"
  /\ pc' = "done"
  /\ UNCHANGED <<fail, RESULTS, cmds, truth, executed>>
  /\ UNCHANGED shellFrame

NextRunAll == RA_Phase \/ RA_Exit

-----------------------------------------------------------------------------
(* pronto-test-v2.cjs: the cycle in seven steps, report with bySev *)

\* the captureError calls of each step, in program order
V2Sites(n) ==
  CASE n = 1 -> <<Finding("CRITICAL", "localhost:6080")>>
    [] n = 2 -> <<Finding("HIGH", "localhost:6080"),
                  Finding("MEDIUM", "localhost:6080 - Modal")>>
    [] n = 4 -> <<Finding("HIGH", "localhost:6081")>>
    [] n = 6 -> <<Finding("MEDIUM", "localhost:6081 - Pagadas"),
                  Finding("LOW", "localhost:6081")>>
    [] n = 7 -> <<Finding("LOW", "localhost:6081")>>
    [] OTHER -> <<>>

V2Pc(n) == CASE n = 1 -> "v_1" [] n = 2 -> "v_2" [] n = 3 -> "v_3" [] n = 4 -> "v_4"
             [] n = 5 -> "v_5" [] n = 6 -> "v_6" [] n = 7 -> "v_7"
             [] OTHER -> "v_report"

\* the findings of a step whose failed checks are those of mask
RECURSIVE Captured(_, _, _)
Captured(errs, sites, mask) ==
  IF sites = <<>> THEN errs
  ELSE Captured(IF Len(sites) \in mask
                THEN captureError(errs, Head(sites).severity, Head(sites).location)
                ELSE errs,
                Tail(sites), mask)

\* const bySev = {CRITICAL: 0, HIGH: 0, MEDIUM: 0, LOW: 0};
\* errors.forEach((e) => bySev[e.severity]++)
RECURSIVE BySev(_, _)
BySev(errs, acc) ==
  IF errs = <<>> THEN acc
  ELSE BySev(Tail(errs),
             CASE Head(errs).severity = "CRITICAL" -> [acc EXCEPT !.critical = @ + 1]
               [] Head(errs).severity = "HIGH" -> [acc EXCEPT !.high = @ + 1]
               [] Head(errs).severity = "MEDIUM" -> [acc EXCEPT !.medium = @ + 1]
               [] Head(errs).severity = "LOW" -> [acc EXCEPT !.low = @ + 1]
               [] OTHER -> acc)

\* {timestamp, summary: bySev, errors}
MakeReportV2(errs) ==
  [BySev(errs, [written |-> TRUE, critical |-> 0, high |-> 0, medium |-> 0,
                low |-> 0, errors |-> <<>>])
     EXCEPT !.errors = errs]

InitV2 ==
  /\ prog = "v2"
  /\ pc = "v_launch"
  /\ errors = <<>>
  /\ outcome = "running"
  /\ open = {}
  /\ closes = NoCloses
  /\ executed = {}
  /\ report = NoReport
  /\ InitIdle
  /\ InitAux

v2Frame == <<prog, idleVars, auxVars, outcome, closes, executed>>

\* catch (error): captureError("CRITICAL", ..., "N/A", ...)
CatchV2 ==
  /\ errors' = captureError(errors, "CRITICAL", "N/A")
  /\ pc' = "v_close"

V_Launch ==
  /\ prog = "v2" /\ pc = "v_launch"
  /\ \/ CatchV2 /\ open' = open
     \/ open' = {"browser"} /\ pc' = "v_1" /\ errors' = errors
  /\ report' = report
  /\ UNCHANGED v2Frame

\* steps 1 to 7
V_Step(n) ==
  /\ prog = "v2" /\ pc = V2Pc(n)
  /\ \/ CatchV2
     \/ /\ pc' = V2Pc(n + 1)
        /\ \E mask \in SUBSET (1..Len(V2Sites(n))) :
             errors' = Captured(errors, V2Sites(n), mask)
  /\ UNCHANGED <<open, report>>
  /\ UNCHANGED v2Frame

\* REPORTE: bySev and writeFileSync
V_Report ==
  /\ prog = "v2" /\ pc = "v_report"
  /\ \/ CatchV2 /\ report' = report
     \/ /\ report' = MakeReportV2(errors)
        /\ errors' = errors
        /\ pc' = "v_close"
  /\ open' = open
  /\ UNCHANGED v2Frame

\* finally: browser.close(); no exit code is set
V_Close ==
  /\ prog = "v2" /\ pc = "v_close"
  /\ closes' = IF "browser" \in open THEN CloseOf(closes, "browser") ELSE closes
  /\ open' = {}
  /\ outcome' = "passed"
  /\ pc' = "done"
  /\ UNCHANGED <<prog, idleVars, auxVars, executed, errors, report>>

NextV2 == V_Launch \/ (\E n \in 1..7 : V_Step(n)) \/ V_Report \/ V_Close

-----------------------------------------------------------------------------
(* test_e2e_simple.cjs: runTest *)

InitE2e ==
  /\ prog = "e2e"
  /\ pc = "e_launch"
  /\ errors = <<>>
  /\ outcome = "running"
  /\ open = {}
  /\ closes = NoCloses
  /\ executed = {}
  /\ report = NoReport
  /\ InitIdle
  /\ InitAux

e2eFrame == <<prog, idleVars, loginAux, shAux, summary, report, executed>>

\* a rejection of runTest() that nothing handles: the process ends with
\* status 1 and nothing after the rejecting statement runs
Rejected == pc' = "done" /\ outcome' = "failed"

\* chromium.launch and browser.newPage, both before the try block
E_Launch ==
  /\ prog = "e2e" /\ pc = "e_launch"
  /\ \E launched \in BOOLEAN, paged \in BOOLEAN :
       /\ open' = IF launched THEN {"browser"} ELSE {}
       /\ IF launched /\ paged
          THEN pc' = "e_menu" /\ outcome' = outcome
          ELSE Rejected
  /\ UNCHANGED <<errors, closes, events>>
  /\ UNCHANGED e2eFrame

\* the checks of the try block, in program order, and the message pushed
\* when one fails
E2eSteps == <<"e_menu", "e_products", "e_checkout">>
E2ePush(step) ==
  CASE step = "e_menu" -> {"ERROR: Contenedor #menu-sections no encontrado"}
    [] step = "e_products" -> {"ERROR: Modal no se abrió",
                               "ERROR: No hay suficientes productos"}
    [] step = "e_checkout" -> {"ERROR: Orden no confirmada",
                               "ERROR: Formulario de checkout no visible"}
E2eAfter(step) ==
  CASE step = "e_menu" -> "e_products"
    [] step = "e_products" -> "e_checkout"
    [] step = "e_checkout" -> "e_report"

\* a part of the try block: its check passes, or pushes its message, or an
\* await throws and the catch pushes ERROR: <message>
E_Step ==
  /\ prog = "e2e" /\ pc \in {E2eSteps[i] : i \in 1..Len(E2eSteps)}
  /\ \/ errors' = errors /\ pc' = E2eAfter(pc)
     \/ \E m \in E2ePush(pc) : errors' = Append(errors, m) /\ pc' = E2eAfter(pc)
     \/ errors' = Append(errors, "ERROR: exception") /\ pc' = "e_report"
  /\ UNCHANGED <<outcome, open, closes, events>>
  /\ UNCHANGED e2eFrame

\* console messages of type error and pageerror events reach their
\* listeners while runTest is suspended in an await
E_Event ==
  /\ prog = "e2e" /\ pc \notin {"e_launch", "done"} /\ "browser" \in open
  /\ Len(events) < MaxEvents
  /\ \E type \in {"error", "log", "pageerror"} :
       /\ events' = Append(events, <<type, "localhost:6080">>)
       /\ errors' = CASE type = "error" -> Append(errors, "JS ERROR")
                      [] type = "pageerror" -> Append(errors, "PAGE ERROR")
                      [] OTHER -> errors
  /\ UNCHANGED <<pc, outcome, open, closes>>
  /\ UNCHANGED e2eFrame

\* REPORTE and LOGS are printed
E_Report ==
  /\ prog = "e2e" /\ pc = "e_report"
  /\ pc' = "e_close"
  /\ UNCHANGED <<errors, outcome, open, closes, events>>
  /\ UNCHANGED e2eFrame

\* await browser.close(); process.exit(errors.length === 0 ? 0 : 1)
E_Close ==
  /\ prog = "e2e" /\ pc = "e_close"
  /\ closes' = CloseOf(closes, "browser")
  /\ open' = Release(open, "browser")
  /\ outcome' = IF Len(errors) = 0 THEN "passed" ELSE "failed"
  /\ pc' = "done"
  /\ UNCHANGED <<errors, events>>
  /\ UNCHANGED e2eFrame

NextE2e == E_Launch \/ E_Step \/ E_Event \/ E_Report \/ E_Close

-----------------------------------------------------------------------------
(* The API guard (unnamed/part_006) in employees/orders.spec.ts *)

InitGuard ==
  /\ prog = "guard"
  /\ pc = "g_install"
  /\ errors = <<>>
  /\ outcome = "running"
  /\ open = {}
  /\ closes = NoCloses
  /\ executed = {}
  /\ report = NoReport
  /\ InitIdle
  /\ InitAux

guardFrame == <<prog, idleVars, loginAux, shAux, summary, report, open, closes>>

\* a listener that also records the answers to OPTIONS requests
OnResponse_AnyMethod(failures, r) ==
  IF r.api /\ r.status \in {404, 405} THEN Append(failures, r) ELSE failures
\* page.on('response', ...): url includes '/api/', method is not OPTIONS,
\* status is 404 or 405: failures.push
OnResponse(failures, r) ==
  IF ~r.api THEN failures
  ELSE IF r.method = "OPTIONS" THEN failures
  ELSE IF r.status # 404 /\ r.status # 405 THEN failures
  ELSE Append(failures, r)

\* first beforeEach: installApi404405Guard(page)
G_Install ==
  /\ prog = "guard" /\ pc = "g_install"
  /\ pc' = "g_login"
  /\ UNCHANGED <<errors, outcome, executed, events>>
  /\ UNCHANGED guardFrame

\* second beforeEach: the login; when it throws the test body is not run
G_Login ==
  /\ prog = "guard" /\ pc = "g_login"
  /\ \E ok \in BOOLEAN :
       /\ pc' = IF ok THEN "g_test" ELSE "g_after"
       /\ executed' = IF ok THEN executed ELSE executed \cup {"login failed"}
  /\ UNCHANGED <<errors, outcome, events>>
  /\ UNCHANGED guardFrame

\* the test body
G_Test ==
  /\ prog = "guard" /\ pc = "g_test"
  /\ \E ok \in BOOLEAN :
       executed' = IF ok THEN executed ELSE executed \cup {"test failed"}
  /\ pc' = "g_after"
  /\ UNCHANGED <<errors, outcome, events>>
  /\ UNCHANGED guardFrame

\* a response of the page reaches the listener
G_Response ==
  /\ prog = "guard" /\ pc \in {"g_login", "g_test", "g_after"}
  /\ Len(events) < MaxEvents
  /\ \E api \in BOOLEAN, method \in {"GET", "OPTIONS"}, st \in {200, 404, 405} :
       LET r == [api |-> api, method |-> method, status |-> st, at |-> pc] IN
         /\ events' = Append(events, r)
         /\ errors' = OnResponse(errors, r)
  /\ UNCHANGED <<pc, outcome, executed>>
  /\ UNCHANGED guardFrame

\* afterEach: guard.assertNoFailures(), expect(failures).toEqual([])
G_After ==
  /\ prog = "guard" /\ pc = "g_after"
  /\ executed' = IF errors = <<>> THEN executed ELSE executed \cup {"guard failed"}
  /\ outcome' = IF executed' = {} THEN "passed" ELSE "failed"
  /\ pc' = "done"
  /\ UNCHANGED <<errors, events>>
  /\ UNCHANGED guardFrame

NextGuard == G_Install \/ G_Login \/ G_Test \/ G_Response \/ G_After

-----------------------------------------------------------------------------
(* testFlujoCompleto (unnamed/part_009) *)

\* An error message is the sequence of its parts; e.includes(part) is
\* the search for the part in it.
Includes(e, part) == \E i \in 1..Len(e) : e[i] = part

InitFlujo ==
  /\ prog = "flujo"
  /\ pc = "fj_launch"
  /\ errors = <<>>
  /\ outcome = "running"
  /\ open = {}
  /\ closes = NoCloses
  /\ executed = {}
  /\ report = NoReport
  /\ InitIdle
  /\ InitAux

flujoFrame == <<prog, idleVars, auxVars, report>>

\* catch (e): errors.push(`ERROR [CRITICO] FASE 1: ${e.message}`)
CatchFase1 ==
  /\ errors' = Append(errors, <<"ERROR", "[CRITICO]", "FASE 1", "message">>)
  /\ pc' = "fj_reporte"

\* chromium.launch, newContext, newPage: before the try block
FJ_Launch ==
  /\ prog = "flujo" /\ pc = "fj_launch"
  /\ \E launched \in BOOLEAN, paged \in BOOLEAN :
       /\ open' = IF launched THEN {"browser"} ELSE {}
       /\ IF launched /\ paged
          THEN pc' = "fj_menu" /\ outcome' = outcome
          ELSE Rejected
  /\ UNCHANGED <<errors, closes, executed>>
  /\ UNCHANGED flujoFrame

\* 1.1: goto, #menu-sections
FJ_Menu ==
  /\ prog = "flujo" /\ pc = "fj_menu"
  /\ \E thrown \in BOOLEAN, menuSections \in 0..1 :
       IF thrown THEN CatchFase1
       ELSE /\ errors' = IF menuSections > 0 THEN errors
                         ELSE Append(errors, <<"ERROR", "[ALTO]", "Menú no cargó">>)
            /\ pc' = "fj_productos"
  /\ UNCHANGED <<outcome, open, closes, executed>>
  /\ UNCHANGED flujoFrame

\* 1.2: two products through the modal
FJ_Productos ==
  /\ prog = "flujo" /\ pc = "fj_productos"
  /\ \E thrown \in BOOLEAN, productos \in 1..2, modalOpen \in 0..1,
        fields \in BOOLEAN :
       IF thrown THEN CatchFase1
       ELSE /\ errors' =
                 IF productos < 2
                 THEN Append(errors, <<"ERROR", "[ALTO]", "No hay suficientes productos">>)
                 ELSE IF modalOpen = 0
                 THEN Append(errors, <<"ERROR", "[ALTO]", "Modal no se abrió">>)
                 ELSE IF ~fields
                 THEN Append(errors, <<"ERROR", "[MEDIO]", "Campos obligatorios no visibles">>)
                 ELSE errors
            /\ pc' = "fj_carrito"
  /\ UNCHANGED <<outcome, open, closes, executed>>
  /\ UNCHANGED flujoFrame

\* 1.3: the cart; nothing is pushed here
FJ_Carrito ==
  /\ prog = "flujo" /\ pc = "fj_carrito"
  /\ \E thrown \in BOOLEAN :
       IF thrown THEN CatchFase1
       ELSE errors' = errors /\ pc' = "fj_checkout"
  /\ UNCHANGED <<outcome, open, closes, executed>>
  /\ UNCHANGED flujoFrame

\* 1.4: checkout button, form, final URL
FJ_Checkout ==
  /\ prog = "flujo" /\ pc = "fj_checkout"
  /\ \E thrown \in BOOLEAN, checkoutBtn \in 0..1, checkoutForm \in 0..1,
        finalUrl \in {"thank-you", "menu"} :
       IF thrown THEN CatchFase1
       ELSE /\ errors' =
                 IF checkoutBtn = 0
                 THEN Append(errors, <<"ERROR", "[ALTO]", "Botón de checkout no encontrado">>)
                 ELSE IF checkoutForm = 0
                 THEN Append(errors, <<"ERROR", "[ALTO]", "Formulario de checkout no visible">>)
                 ELSE IF finalUrl # "thank-you"
                 THEN Append(errors, <<"ERROR", "[ALTO]", "Orden no confirmada">>)
                 ELSE errors
            /\ pc' = "fj_reporte"
  /\ UNCHANGED <<outcome, open, closes, executed>>
  /\ UNCHANGED flujoFrame

\* REPORTE DE FASE 1: errors.filter((e) => e.includes('FASE 1'))
FJ_Reporte ==
  /\ prog = "flujo" /\ pc = "fj_reporte"
  /\ LET fase1 == SelectSeq(errors, LAMBDA e : Includes(e, "FASE 1")) IN
       executed' = executed \cup
         {IF Len(fase1) = 0 THEN "FASE 1 COMPLETADA EXITOSAMENTE"
                            ELSE "FASE 1 CON ERRORES"}
  /\ pc' = "fj_close"
  /\ UNCHANGED <<errors, outcome, open, closes>>
  /\ UNCHANGED flujoFrame

\* browser.close(), RESUMEN FINAL, return { success: errors.length === 0 };
\* a rejection of close() reaches the .catch of the caller
FJ_Close ==
  /\ prog = "flujo" /\ pc = "fj_close"
  /\ \E closed \in BOOLEAN :
       IF closed
       THEN /\ closes' = CloseOf(closes, "browser")
            /\ open' = Release(open, "browser")
            /\ executed' = executed \cup {"returned"}
            /\ outcome' = IF Len(errors) = 0 THEN "passed" ELSE "failed"
            /\ pc' = "done"
       ELSE /\ Rejected
            /\ UNCHANGED <<closes, open, executed>>
  /\ UNCHANGED errors
  /\ UNCHANGED flujoFrame

NextFlujo == \/ FJ_Launch \/ FJ_Menu \/ FJ_Productos \/ FJ_Carrito
             \/ FJ_Checkout \/ FJ_Reporte \/ FJ_Close

-----------------------------------------------------------------------------
(* The specification *)

Init == InitPerf \/ InitQa \/ InitMain \/ InitFlow \/ InitLogin
        \/ InitRunTests \/ InitRunAll \/ InitV2
        \/ InitE2e \/ InitGuard \/ InitFlujo
Next == NextPerf \/ NextQa \/ NextMain \/ NextFlow \/ NextLogin
        \/ NextRunTests \/ NextRunAll \/ NextV2
        \/ NextE2e \/ NextGuard \/ NextFlujo
Spec == Init /\ [][Next]_vars

\* every harness is a single sequential run that is never suspended for ever
FairSpec == Spec /\ WF_vars(Next)

-----------------------------------------------------------------------------
(* Properties *)

\* the controls the harness has invoked
Invoked == {c[1] : c \in clicks}

\* C1 as stated: in the Ciclo Completo run a transition is invoked only
\* after the harness has read the post-state of the transition before it.
C1_Original ==
  prog = "perf" =>
    \A t \in {"start", "ready", "deliver", "pay"} :
      t \in Invoked => Pre(t) \in seen

\* C1: in the Ciclo Completo run "Listo" is invoked only after the poll
\* that follows "Iniciar" has confirmed kitchen_in_progress, and when the
\* deliver control was invoked the payment is invoked only after the poll
\* has confirmed delivered.
C1_PolledBeforeNext ==
  prog = "perf" =>
    /\ "ready" \in Invoked => "kitchen_in_progress" \in confirmed
    /\ {"deliver", "pay"} \subseteq Invoked => "delivered" \in confirmed

C1_Witness ==
  /\ prog = "perf"
  /\ {"start", "ready", "deliver", "pay"} \subseteq Invoked
  /\ {"kitchen_in_progress", "delivered"} \subseteq confirmed

\* C2: in the Ciclo Completo run, once a post-state has been confirmed, no
\* later read of the order's status by the harness yields an earlier state.
C2_NoRegress ==
  prog = "perf" => \A s \in confirmed : Rank(obs) >= Rank(s)

\* C3: a Ciclo Completo run in which every login, control and poll
\* succeeds (env stays "happy") ends passed, with no finding, the order
\* paid and every stage executed.
C3_HappyPathPasses ==
  <>(\/ prog # "perf"
     \/ env # "happy"
     \/ /\ pc = "done"
        /\ outcome = "passed"
        /\ errors = <<>>
        /\ status[customerOrder] = "paid"
        /\ {"client", "waiterAccept", "chef", "waiterDeliver", "pay", "verify"}
             \subseteq executed)

C3_Witness ==
  /\ prog = "perf" /\ env = "happy" /\ pc = "done" /\ outcome = "passed"
  /\ {"accept", "start", "ready", "deliver", "pay", "cash", "confirm"}
       \subseteq Invoked

-----------------------------------------------------------------------------
(* Findings and stages *)

\* findings of errs with severity sev and location loc
FindingsAt(errs, sev, loc) ==
  {i \in 1..Len(errs) : errs[i] = [severity |-> sev, location |-> loc]}

\* findings of errs with one of the severities sevs
FindingsOf(errs, sevs) ==
  {i \in 1..Len(errs) : errs[i].severity \in sevs}

\* the steps of the qa-cycle run, in program order
QaStages == <<"client", "waiter", "chef", "waiter2", "cashier">>

\* the transition controls a run found missing
MissingControls == skipped \cap {"accept", "start", "ready", "deliver", "pay"}

\* the qa-cycle step i threw: it never closed its page, and no later step ran
StoppedAt(i) ==
  /\ QaStages[i] \in executed
  /\ closes[QaStages[i]] = 0
  /\ \A j \in 1..Len(QaStages) : j > i => QaStages[j] \notin executed

\* C4 as stated: when no strategy resolves the order id, exactly one
\* CRITICAL finding with location "order resolution" is recorded and no
\* role-dependent step is executed afterwards.
C4_Original ==
  (prog \in {"perf", "qa"} /\ "id" \in skipped) =>
    /\ Cardinality(FindingsAt(errors, "CRITICAL", "order resolution")) = 1
    /\ executed \subseteq {"client"}

\* C4: when no strategy resolves the order id, the qa-cycle run records
\* exactly one CRITICAL finding, located "Client checkout", goes on to the
\* waiter, chef, waiter and cashier steps, which invoke no control, and ends
\* failed; the Ciclo Completo run throws: it ends failed with no finding and
\* no step after the client step.
C4_UnresolvedOrder ==
  "id" \in skipped =>
    /\ prog = "qa" =>
         /\ Cardinality(FindingsAt(errors, "CRITICAL", "Client checkout")) = 1
         /\ FindingsAt(errors, "CRITICAL", "order resolution") = {}
         /\ clicks = {}
         /\ (pc = "done" /\ "thrown" \notin skipped) =>
               {"waiter", "chef", "waiter2", "cashier"} \subseteq executed
         /\ pc = "done" => outcome = "failed"
    /\ prog = "perf" =>
         /\ pc = "done" /\ outcome = "failed"
         /\ errors = <<>>
         /\ executed = {"client"}

C4_Witness ==
  /\ prog = "qa" /\ "id" \in skipped /\ pc = "done"
  /\ {"waiter", "chef", "waiter2", "cashier"} \subseteq executed

\* C5 as stated: for every transition control found missing one HIGH or
\* MEDIUM finding is recorded, and the run never stops for it.
C5_Original ==
  (prog \in {"perf", "qa"} /\ MissingControls # {}) =>
    /\ Cardinality(FindingsOf(errors, {"HIGH", "MEDIUM"}))
         >= Cardinality(MissingControls)
    /\ ~(prog = "perf" /\ outcome = "failed")

\* C5: a missing transition control records no finding.  In the qa-cycle
\* run the findings are exactly those of an unresolved id, an empty
\* kitchen, a missing PDF button and a caught exception, and the later
\* steps run.  In the Ciclo Completo run a missing accept or deliver
\* control is passed over and the next stage runs, while a missing start,
\* ready or pay control ends the run failed before the verification.
C5_MissingControl ==
  /\ prog = "qa" =>
       /\ Len(errors) = Cardinality(skipped \cap {"id", "kitchen", "pdf", "thrown"})
       /\ (MissingControls # {} /\ pc = "done" /\ "thrown" \notin skipped) =>
             {"waiter", "chef", "waiter2", "cashier"} \subseteq executed
  /\ prog = "perf" =>
       /\ errors = <<>>
       /\ ("accept" \in skipped /\ pc = "done") => "chef" \in executed
       /\ ("deliver" \in skipped /\ pc = "done") => "pay" \in executed
       /\ skipped \cap {"start", "ready", "pay"} # {} =>
             pc = "done" /\ outcome = "failed" /\ "verify" \notin executed

C5_Witness ==
  /\ prog = "qa" /\ pc = "done" /\ outcome = "passed"
  /\ {"accept", "deliver"} \subseteq MissingControls

\* C6 as stated: when a transition was invoked and its poll never reached
\* the expected state, a HIGH finding is recorded and the remaining stages
\* are still executed.
C6_Original ==
  (prog = "perf" /\ "unconfirmed" \in skipped /\ pc = "done") =>
    /\ FindingsOf(errors, {"HIGH"}) # {}
    /\ "verify" \in executed

\* C6: in the Ciclo Completo run a poll that ends without the expected
\* state throws: the run ends failed at once, with no finding, the
\* throwing stage's context left open and no verification.
C6_PollTimeoutEndsRun ==
  (prog = "perf" /\ "unconfirmed" \in skipped) =>
    /\ pc = "done" /\ outcome = "failed"
    /\ errors = <<>>
    /\ open \cap {"chef", "waiterDeliver"} # {}
    /\ {"pay", "verify"} \cap executed = {}

C6_Witness ==
  /\ prog = "perf" /\ "unconfirmed" \in skipped
  /\ <<"deliver", customerOrder>> \in clicks
  /\ obs = "ready_for_delivery"

\* C7 as stated: when the waiter's login fails, a CRITICAL finding is
\* recorded, the waiter's stages invoke nothing, and the chef and the
\* payment or cashier stages are still attempted.
C7_Original ==
  (prog \in {"perf", "qa"} /\ pc = "done"
     /\ authFailed \cap {"waiterAccept", "waiter"} # {}) =>
    /\ FindingsOf(errors, {"CRITICAL"}) # {}
    /\ "accept" \notin Invoked
    /\ "chef" \in executed
    /\ executed \cap {"pay", "cashier"} # {}

\* C7: in the Ciclo Completo run a waiter login still on /login after one
\* direct navigation throws 'Session lost': the run ends failed with no
\* finding, no control invoked and no later stage.  In the qa-cycle run the
\* login result is not checked: the waiter step invokes nothing, no finding
\* is recorded for the login, and unless a step throws the chef and the
\* cashier steps are executed.
C7_WaiterLoginFails ==
  /\ (prog = "perf" /\ "waiterAccept" \in authFailed) =>
       /\ pc = "done" /\ outcome = "failed"
       /\ retried = 1
       /\ errors = <<>>
       /\ clicks = {}
       /\ executed = {"client", "waiterAccept"}
  /\ (prog = "qa" /\ "waiter" \in authFailed) =>
       /\ "accept" \notin Invoked
       /\ FindingsAt(errors, "CRITICAL", "Test execution") # {}
            <=> "thrown" \in skipped
       /\ (pc = "done" /\ "thrown" \notin skipped) =>
             {"chef", "cashier"} \subseteq executed

C7_Witness ==
  /\ prog = "perf" /\ "waiterAccept" \in authFailed
  /\ retried = 1 /\ pc = "done" /\ outcome = "failed"

\* the qa-cycle run has finished its order id resolution
ResolvedQa == prog = "qa" /\ closes["client"] = 1

\* C8 as stated: resolving again from the same captured response returns
\* the identifier resolved before, whatever orders were created meanwhile.
C8_Original ==
  ResolvedQa => ResolveQa(response, active) = orderId

\* C8: resolving again from the same captured response returns the
\* identifier resolved before when the response carried one (ok, with
\* order_id or id), whatever orders were created meanwhile.
C8_IdempotentFromResponse ==
  (ResolvedQa /\ response.ok /\ (response.order_id # 0 \/ response.id # 0)) =>
    ResolveQa(response, active) = orderId

C8_Witness ==
  /\ ResolvedQa /\ response.ok /\ response.order_id # 0
  /\ status[2] = "new" /\ active # <<>> /\ Head(active) = 2
  /\ orderId = customerOrder

\* C9 as stated: a failure inside a step is turned into a finding and
\* every later step is still executed, unless the order id never resolved.
C9_Original ==
  (pc = "done" /\ "id" \notin skipped
     /\ \/ prog = "qa" /\ "thrown" \in skipped
        \/ prog = "perf" /\ outcome = "failed") =>
    /\ errors # <<>>
    /\ prog = "qa" => {"waiter", "chef", "waiter2", "cashier"} \subseteq executed
    /\ prog = "perf" => "verify" \in executed

\* C9: in the qa-cycle run an exception thrown inside a step is caught once
\* for the whole run: it adds one CRITICAL finding located "Test execution"
\* as the last finding, no later step is executed, and the run ends failed;
\* an unresolved order id alone stops no step.  In the Ciclo Completo run
\* an exception is not caught: the run ends failed with no finding.
C9_OneCatchForTheRun ==
  /\ (prog = "qa" /\ "thrown" \in skipped) =>
       /\ pc \in {"q_report", "done"}
       /\ FindingsAt(errors, "CRITICAL", "Test execution") = {Len(errors)}
       /\ \E i \in 1..Len(QaStages) : StoppedAt(i)
       /\ pc = "done" => outcome = "failed"
  /\ (prog = "qa" /\ "thrown" \notin skipped /\ pc = "done") =>
       {"waiter", "chef", "waiter2", "cashier"} \subseteq executed
  /\ (prog = "perf" /\ outcome = "failed") =>
       /\ pc = "done"
       /\ errors = <<>>

C9_Witness ==
  /\ prog = "qa" /\ "thrown" \in skipped /\ pc = "done"
  /\ StoppedAt(2) /\ orderId = customerOrder

\* C10: a run never ends with success while a finding was recorded, a
\* control, stage or id was missed, or a fatal error occurred.
C10_ExitReflectsFindings ==
  pc = "done" => ~(outcome = "passed" /\ (errors # <<>> \/ skipped # {}))

\* C11: in the Ciclo Completo run, whenever a step works on a row, found by
\* id or by the customer-name fallback, the shared order id is that row's
\* data-order-id.
C11_IdFollowsRow ==
  (prog = "perf" /\ row # 0) => orderId = row

\* the first identifier of a sequence of strategy results (0: none)
RECURSIVE FirstNonZero(_)
FirstNonZero(yields) ==
  IF yields = <<>> THEN 0
  ELSE IF Head(yields) # 0 THEN Head(yields)
  ELSE FirstNonZero(Tail(yields))

\* what each strategy yields on its own, in the priority order of the code
YieldsPerf == <<page.card, page.urlId, page.attr, page.num>>
YieldsQa == <<IF response.ok THEN response.order_id ELSE 0,
              IF response.ok THEN response.id ELSE 0,
              IF active = <<>> THEN 0 ELSE Head(active)>>

\* C12: order id resolution ends with the identifier of the first strategy,
\* in priority order, that yields one: a later strategy never overwrites it
\* and counts only when every earlier one yielded nothing.
C12_FirstStrategyWins ==
  [][/\ (prog = "perf" /\ pc = "p_resolve") => orderId' = FirstNonZero(YieldsPerf)
     /\ (prog = "qa" /\ pc = "q_resolve" /\ pc' = "q_waiter") =>
           orderId' = FirstNonZero(YieldsQa)]_vars

C12_Witness ==
  /\ prog = "qa" /\ pc = "q_waiter"
  /\ response.ok /\ response.order_id = 0 /\ response.id = customerOrder
  /\ active # <<>> /\ Head(active) = 2
  /\ orderId = customerOrder

\* the controls of the step just taken
NewClicks == clicks' \ clicks

\* qa-cycle: controls invoked in a row that is not the resolved order's
GlobalClicks == {c \in clicks : c[2] # orderId}

\* C13 as stated: a control outside the resolved order's row is clicked only
\* with a MEDIUM finding recorded for it.
C13_Original ==
  (prog = "qa" /\ GlobalClicks # {}) => FindingsOf(errors, {"MEDIUM"}) # {}

\* C13: every control is looked up in the row of the resolved order when
\* the dashboard shows that row.  When it does not, the qa-cycle waiter and
\* chef steps click the first accept, start or ready control of the page,
\* in another order's row, and record no finding for it; the deliver and
\* cash controls are never taken from another row.  The Ciclo Completo run
\* clicks only in the row it located by id or by customer name.
C13_ScopedOrFirst ==
  [][/\ prog = "qa" =>
          /\ \A c \in NewClicks :
               \/ c[2] = orderId /\ orderId \in vis'
               \/ /\ orderId \notin vis' /\ c[2] \in vis'
                  /\ c[1] \in {"accept", "start", "ready"}
          /\ (\E c \in NewClicks : c[2] # orderId) => errors' = errors
     /\ prog = "perf" =>
          \A c \in NewClicks : c[2] \in vis /\ c[2] \in {orderId, row}]_vars

C13_Witness ==
  /\ prog = "qa" /\ pc = "done" /\ outcome = "passed"
  /\ <<"accept", 2>> \in clicks /\ <<"start", 2>> \in clicks
  /\ orderId = customerOrder

\* C14: when a Ciclo Completo or qa-cycle run has ended, every context or
\* page a step opened has been closed, and none more than once.
C14_ClosedExactlyOnce ==
  (prog \in {"perf", "qa"} /\ pc = "done") =>
    /\ open = {}
    /\ \A c \in Contexts : closes[c] <= 1

\* the stages of the Ciclo Completo run, in program order
PerfStages == <<"client", "waiterAccept", "chef", "waiterDeliver", "pay", "verify">>

\* C15: in the Ciclo Completo run the stages start in the order client,
\* waiter-accept, chef, waiter-deliver, pay, verifier, and at most one
\* context is open at any point: a stage's context is closed before the
\* next stage opens its own.
C15_OneSessionInOrder ==
  prog = "perf" =>
    /\ Cardinality(open) <= 1
    /\ \A i \in 1..Len(PerfStages) : PerfStages[i] \in executed =>
         \A j \in 1..i : PerfStages[j] \in executed

C15_Witness ==
  /\ prog = "perf" /\ pc = "done" /\ outcome = "passed" /\ open = {}
  /\ \A c \in {"client", "waiterAccept", "chef", "waiterDeliver", "verifier"} :
       closes[c] = 1

\* C16: no browser context is ever used by two different actors.
C16_NoSharedContext ==
  \A c \in Contexts : Cardinality(users[c]) <= 1

\* the customer-visible texts that stand for "paid"
PaidSynonyms == {"pagada", "paid", "pagado", "completado"}

\* C17: a Ciclo Completo run ends passed only if its verification stage, in
\* a context of its own opened after the payment stage's context was
\* closed, read on the card of this run's order a text with a paid synonym
\* in either letter case; a verification that never reads one fails the run.
C17_PassedOnlyIfVerifiedPaid ==
  prog = "perf" =>
    /\ outcome = "passed" =>
         /\ pc = "done" /\ "verify" \in executed
         /\ cardText.word \in PaidSynonyms
         /\ closes["waiterDeliver"] = 1 /\ closes["verifier"] = 1
         /\ users["verifier"] = {"customer"}
    /\ (pc = "done" /\ "verify" \in executed /\ cardText.word \notin PaidSynonyms)
         => outcome = "failed"

C17_Witness ==
  /\ prog = "perf" /\ outcome = "passed"
  /\ cardText = [word |-> "pagado", case |-> "upper"]

DashboardPcs ==
  {"p_wa_locate", "p_wa_accept", "p_ch_locate", "p_ch_start", "p_ch_ready",
   "p_wd_locate", "p_wd_reaccept", "p_wd_deliver", "p_pay", "p_cash",
   "p_confirm", "p_modals"}

\* C19: in the Ciclo Completo run a login that left the page on /login is
\* followed by one direct navigation to the role's dashboard and no more;
\* a stage whose URL still holds /login after it ends the run as failed,
\* and a dashboard is only used with a URL that does not hold /login.
C19_RetryOnceThenFail ==
  [][prog = "perf" =>
       /\ retried' \in {0, 1}
       /\ (retried = 0 /\ retried' = 1) => (url = "login" /\ pc' = pc)
       /\ (pc \in {"p_wa_check", "p_ch_check", "p_wd_check"} /\ pc' # pc) =>
            /\ url = "login" => (retried = 1 /\ pc' = "done" /\ outcome' = "failed")
            /\ pc' \in DashboardPcs => url = "dashboard"
       /\ pc' \in DashboardPcs => url' = "dashboard"]_vars

C19_Witness ==
  /\ prog = "perf" /\ pc = "p_ch_locate" /\ retried = 1 /\ url = "dashboard"

C21_Original ==
  (prog = "perf" /\ pc = "done" /\ skipped \cap {"chef", "reaccept"} # {})
    => errors # <<>>

\* C21: in the Ciclo Completo run a chef step that does not find the order
\* closes its context and goes on to the deliver stage, and a deliver step
\* that finds the order still new goes on to the deliver control after at
\* most an accept click; neither ends the run, and neither records a
\* finding (the run keeps no findings).
C21_GoesOnWithoutFinding ==
  [][prog = "perf" =>
       /\ errors' = <<>>
       /\ (pc = "p_ch_locate" /\ "chef" \in skipped') =>
            /\ pc' = "p_wd_login" /\ outcome' = "running"
            /\ clicks' = clicks /\ "chef" \notin open'
       /\ pc = "p_wd_reaccept" =>
            /\ pc' = "p_wd_deliver" /\ outcome' = "running"
            /\ NewClicks \subseteq {<<"accept", orderId>>}]_vars

C21_Witness ==
  /\ prog = "perf" /\ pc = "p_verify" /\ outcome = "running"
  /\ {"chef", "reaccept"} \subseteq skipped

\* C22: the report is written at most once and only after every phase has
\* run, and a written report holds every finding recorded in the run.
C22_ReportComplete ==
  /\ (prog = "main" /\ report.written) =>
       /\ {"fase1", "fase2", "fase3", "fase4", "fase6", "fase7"} \subseteq executed
       /\ report.errors = errors
  /\ (prog = "flow" /\ report.written) =>
       /\ {"fase1", "fase2", "fase3", "fase4", "fase5"} \subseteq executed
       /\ report.errors = errors

\* C23: a role login answered with a status other than 200, or with a
\* payload that is not a success, ends the test that made it as failed.
C23_AuthFailureFails ==
  (prog = "login" /\ pc = "done" /\ http.login # 0
     /\ (http.login # 200 \/ http.payload # "success"))
    => outcome = "failed"

\* what became of the suites of a script run
Fates == {truth[i][2] : i \in 1..Len(truth)}

\* C24: run-tests.sh all goes through every suite whatever became of the
\* suites before it, running each suite whose command is there; the fail
\* flag is never cleared; and the exit status is 0 exactly when no suite
\* that was run failed and no suite's command was missing.
C24_AllSuitesExitReflects ==
  [][prog = "runtests" =>
       /\ fail' >= fail
       /\ pc = "rt_suite" =>
            /\ Len(truth') = Len(truth) + 1
            /\ truth'[Len(truth')][1] = Suites[Len(truth')]
            /\ outcome' = "running"
            /\ (Suites[Len(truth')] \in executed')
                 <=> Available(Suites[Len(truth')], cmds)
       /\ pc' = "done" =>
            /\ Len(truth) = Len(Suites)
            /\ (outcome' = "passed") <=> (Fates \cap {"failed", "missing"} = {})
            /\ outcome' \in {"passed", "failed"}]_vars

C24_Witness ==
  /\ prog = "runtests" /\ pc = "done" /\ outcome = "failed"
  /\ truth[1][2] = "failed" /\ truth[6][2] = "ok"
  /\ Len(truth) = 6 /\ "missing" \notin Fates

\* C26: run-all-tests.sh records a phase as FAIL exactly when the tests of
\* the phase failed, and exits 1 exactly when a phase is recorded FAIL.
C26_FailRecorded ==
  (prog = "runall" /\ pc = "done") =>
    /\ Len(RESULTS) = Len(Phases)
    /\ \A i \in 1..Len(RESULTS) :
         (RESULTS[i][2] = "FAIL") <=> (truth[i][2] = "failed")
    /\ (outcome = "failed") <=> (\E i \in 1..Len(RESULTS) : RESULTS[i][2] = "FAIL")

\* C25: in every written report each count by severity is the number of
\* findings of that severity in the report's list, and the total, in the
\* reports that have one, is the length of the list and the sum of the
\* four counts.
C25_CountsMatchFindings ==
  (prog \in {"main", "flow", "v2"} /\ report.written) =>
    /\ report.critical = Cardinality(FindingsOf(report.errors, {"CRITICAL"}))
    /\ report.high = Cardinality(FindingsOf(report.errors, {"HIGH"}))
    /\ report.medium = Cardinality(FindingsOf(report.errors, {"MEDIUM"}))
    /\ report.low = Cardinality(FindingsOf(report.errors, {"LOW"}))
    /\ prog \in {"main", "flow"} =>
         /\ report.total = Len(report.errors)
         /\ report.total = report.critical + report.high + report.medium
                           + report.low

C25_Witness ==
  /\ prog = "flow" /\ report.written
  /\ report.total = 3 /\ report.high = 1 /\ report.medium = 2

\* the findings of errs recorded by the console listeners
IsConsoleFinding(e) ==
  e.severity = "MEDIUM" /\ e.location \in {"localhost:6080", "localhost:6081"}
ConsoleFindings(errs) == SelectSeq(errs, IsConsoleFinding)

\* the console messages of type error, in arrival order
IsErrorEvent(ev) == ev[1] = "error"
ErrorEvents(evs) == SelectSeq(evs, IsErrorEvent)

\* C27: in unnamed/part_010 the findings recorded by the console listeners
\* are, in arrival order, one MEDIUM finding for each console message of
\* type error, located at the message's page; a console message changes
\* nothing else; no step of the run removes or reorders findings; and the
\* counts printed under RESUMEN are those of the written report.
C27_ConsoleFindings ==
  [][prog = "flow" =>
       /\ Len(errors') >= Len(errors)
       /\ SubSeq(errors', 1, Len(errors)) = errors
       /\ Len(ConsoleFindings(errors')) = Len(ErrorEvents(events'))
       /\ \A i \in 1..Len(ErrorEvents(events')) :
            ConsoleFindings(errors')[i].location = ErrorEvents(events')[i][2]
       /\ events' # events =>
            /\ Len(errors') <= Len(errors) + 1
            /\ pc' = pc /\ report' = report /\ summary' = summary
       /\ report'.written =>
            /\ summary'.printed
            /\ summary'.total = report'.total
            /\ summary'.critical = report'.critical
            /\ summary'.high = report'.high
            /\ summary'.medium = report'.medium
            /\ summary'.low = report'.low]_vars

C27_Witness ==
  /\ prog = "flow" /\ pc = "done" /\ report.written
  /\ events = <<<<"error", "localhost:6081">>, <<"error", "localhost:6080">>>>
  /\ summary.medium = 2 /\ report.medium = 2 /\ report.total = 3
  /\ errors = report.errors

\* C28: runTest ends with exit status 0 exactly when no error was
\* recorded, and with the browser closed once and nothing left open.
C28_ExitAndClose ==
  (prog = "e2e" /\ pc = "done") =>
    /\ (outcome = "passed") <=> (errors = <<>>)
    /\ open = {}
    /\ closes["browser"] <= 1

\* a response the guard is to record
IsApiFailure(r) == r.api /\ r.method # "OPTIONS" /\ r.status \in {404, 405}

\* C29: the failures of the API guard are, in arrival order, the responses
\* that arrived since its installation with /api/ in the URL, a method
\* other than OPTIONS and status 404 or 405, those of the login hook
\* included; assertNoFailures fails exactly when there is one, and then
\* the test is failed.
C29_GuardRecords ==
  prog = "guard" =>
    /\ errors = SelectSeq(events, IsApiFailure)
    /\ pc = "done" =>
         /\ ("guard failed" \in executed)
              <=> (\E i \in 1..Len(events) : IsApiFailure(events[i]))
         /\ "guard failed" \in executed => outcome = "failed"

C29_Witness ==
  /\ prog = "guard" /\ pc = "done" /\ outcome = "failed"
  /\ executed = {"guard failed"}
  /\ Len(events) = 2 /\ Len(errors) = 1
  /\ events[1].at = "g_login" /\ IsApiFailure(events[1])
  /\ events[2].method = "OPTIONS" /\ events[2].status = 405 /\ events[2].api

\* C30: in testFlujoCompleto the report of phase 1 prints FASE 1 COMPLETADA
\* EXITOSAMENTE only when no error was recorded during phase 1, and the
\* function returns success exactly when the errors list is empty.
C30_ReporteFase1 ==
  prog = "flujo" =>
    /\ "FASE 1 COMPLETADA EXITOSAMENTE" \in executed => errors = <<>>
    /\ "returned" \in executed => (outcome = "passed" <=> errors = <<>>)

=============================================================================
